---------------------------- MODULE Spec2Model ----------------------------
(***************************************************************************)
(* A model of the sf-events pipeline (vgrichina/sf-events).                *)
(*                                                                         *)
(*   process-html.js   the current process step: extractEvents and         *)
(*                     processHtmlFiles (no date filtering)                *)
(*   unnamed/part_002  the revision of the process step whose              *)
(*                     processHtmlFiles filters for today's events in two  *)
(*                     passes (a lenient filter, then a strict one)        *)
(*                                                                         *)
(* Text is modelled as a sequence of one-character strings, so that        *)
(* toLowerCase, includes, endsWith, trim and the regular expressions of    *)
(* the source are computed on characters.  The process step is modelled as *)
(* run without a debug argument (DEBUG_SOURCE undefined): the debug        *)
(* branches only log.                                                      *)
(***************************************************************************)
EXTENDS Integers, Sequences, FiniteSets, TLC

VARIABLES
    today,        \* the run's reference date: [year, month, date]
    sources,      \* the rows of sources.csv, in file order
    htmlDumps,    \* html_dumps/: [dir, files], files maps a file name to its document
    pc,           \* position of the run
    cursor,       \* index of the fetch that fetches.forEach handles next
    fetches,      \* successfulFetches: the rows whose HTML file exists
    events,       \* the events array of the latest extractEvents call
    calls,        \* log of the extractEvents calls: input and outcome
    allEvents,    \* processHtmlFiles' allEvents
    allEventsFile,    \* processed_data/all_events.json
    eventsFile,       \* processed_data/events_<today>.json
    reportEvents,     \* the events rendered into tonights_events.md
    eventsByRegion,   \* the buckets the report is rendered from
    utcOffset,        \* the time zone of the machine: hours ahead of UTC
    written,          \* the names of the files the process step has written
    sourcesToProcess, \* fetch-html.js: the rows of the run
    fetchCursor,      \* fetch-html.js: the position of the for loop
    results,          \* fetch-html.js: the results array of the run
    fetchResultsFile, \* fetch_results.json
    trail,            \* fetch-html.js: the navigations and delays of the run
    fetchRuns,        \* the runs of fetch-html.js that have ended
    pages,            \* fetch-html.js: the browser pages open now, and the most
                      \* that were open at one moment of the run: [open, peak]
    cleanedFile,      \* processed_data/events_<today>_cleaned.json: [exists, events]
    cleanedReport,    \* processed_data/events_<today>_cleaned.md: [exists, events]
    llmResponse,      \* the answer the cleanup step received
    apiKey            \* process.env.OPENROUTER_API_KEY is set

vars ==
    << today, sources, htmlDumps, pc, cursor, fetches, events, calls,
       allEvents, allEventsFile, eventsFile, reportEvents, eventsByRegion, utcOffset,
       written, sourcesToProcess, fetchCursor, results, fetchResultsFile, trail, fetchRuns,
       pages, cleanedFile, cleanedReport, llmResponse, apiKey >>

cleanupVars ==
    << cleanedFile, cleanedReport, llmResponse, apiKey >>

fetchVars ==
    << sourcesToProcess, fetchCursor, results, fetchResultsFile, trail, fetchRuns, pages >>

-----------------------------------------------------------------------------
(* Characters and text *)

UpperChars ==
    <<"A","B","C","D","E","F","G","H","I","J","K","L","M","N","O","P","Q","R","S","T","U","V","W","X","Y","Z">>

LowerChars ==
    <<"a","b","c","d","e","f","g","h","i","j","k","l","m","n","o","p","q","r","s","t","u","v","w","x","y","z">>

DigitChars ==
    <<"0","1","2","3","4","5","6","7","8","9">>

IndexIn(c, table) ==
    IF \E i \in 1..Len(table) : table[i] = c
    THEN CHOOSE i \in 1..Len(table) : table[i] = c
    ELSE 0

ToLowerChar(c) ==
    IF IndexIn(c, UpperChars) > 0 THEN LowerChars[IndexIn(c, UpperChars)] ELSE c

ToUpperChar(c) ==
    IF IndexIn(c, LowerChars) > 0 THEN UpperChars[IndexIn(c, LowerChars)] ELSE c

\* String.prototype.toLowerCase
ToLowerCase(s) ==
    [i \in 1..Len(s) |-> ToLowerChar(s[i])]

ToUpperCase(s) ==
    [i \in 1..Len(s) |-> ToUpperChar(s[i])]

Capitalize(s) ==
    IF Len(s) = 0 THEN s ELSE <<ToUpperChar(s[1])>> \o Tail(s)

IsDigit(c) ==
    IndexIn(c, DigitChars) > 0

\* \w of a JavaScript regular expression
IsWordChar(c) ==
    \/ IsDigit(c)
    \/ IndexIn(c, LowerChars) > 0
    \/ IndexIn(c, UpperChars) > 0
    \/ c = "_"

\* \s of a JavaScript regular expression (the characters the model uses)
IsSpace(c) ==
    c \in {" ", "\n", "\t"}

\* String.prototype.includes
Includes(s, t) ==
    \E i \in 1..(Len(s) - Len(t) + 1) : SubSeq(s, i, i + Len(t) - 1) = t

\* String.prototype.endsWith
EndsWith(s, t) ==
    /\ Len(t) <= Len(s)
    /\ SubSeq(s, Len(s) - Len(t) + 1, Len(s)) = t

\* String.prototype.startsWith
StartsWith(s, t) ==
    /\ Len(t) <= Len(s)
    /\ SubSeq(s, 1, Len(t)) = t

\* new RegExp(`\\b${t}\\b`).test(s), for a t that starts and ends with a digit
MatchesWholeToken(s, t) ==
    \E i \in 1..(Len(s) - Len(t) + 1) :
        /\ SubSeq(s, i, i + Len(t) - 1) = t
        /\ (i = 1 \/ ~IsWordChar(s[i - 1]))
        /\ (i + Len(t) - 1 = Len(s) \/ ~IsWordChar(s[i + Len(t)]))

\* s without its leading white space
TrimStart(s) ==
    IF \A i \in 1..Len(s) : IsSpace(s[i]) THEN <<>>
    ELSE SubSeq(s, CHOOSE i \in 1..Len(s) :
                       ~IsSpace(s[i]) /\ \A j \in 1..(i - 1) : IsSpace(s[j]),
                Len(s))

\* s without its trailing white space
TrimEnd(s) ==
    IF \A i \in 1..Len(s) : IsSpace(s[i]) THEN <<>>
    ELSE SubSeq(s, 1, CHOOSE i \in 1..Len(s) :
                          ~IsSpace(s[i]) /\ \A j \in (i + 1)..Len(s) : IsSpace(s[j]))

\* String.prototype.trim
Trim(s) ==
    TrimEnd(TrimStart(s))

\* The positions of s that hold no white space or the first character of a
\* run of white space
RunStarts(s) ==
    SelectSeq([i \in 1..Len(s) |-> i],
              LAMBDA i : ~IsSpace(s[i]) \/ i = 1 \/ ~IsSpace(s[i - 1]))

\* s.replace(/\s+/g, c): every run of white space becomes the one character c
ReplaceSpaceRuns(s, starts, c) ==
    [n \in 1..Len(starts) |-> IF IsSpace(s[starts[n]]) THEN c ELSE s[starts[n]]]

\* s.replace(/\s+/g, ' ')
CollapseSpaces(s) ==
    ReplaceSpaceRuns(s, RunStarts(s), " ")

\* Array.prototype.join(' ')
RECURSIVE JoinWithSpace(_)
JoinWithSpace(texts) ==
    IF Len(texts) = 0 THEN <<>>
    ELSE IF Len(texts) = 1 THEN texts[1]
    ELSE texts[1] \o <<" ">> \o JoinWithSpace(Tail(texts))

\* Number.prototype.toString for a natural number
RECURSIVE NumberToString(_)
NumberToString(n) ==
    IF n < 10 THEN <<DigitChars[n + 1]>>
    ELSE NumberToString(n \div 10) \o <<DigitChars[(n % 10) + 1]>>

\* Number(s) for a string of digits
RECURSIVE DigitsToNumber(_)
DigitsToNumber(s) ==
    IF Len(s) = 0 THEN 0
    ELSE 10 * DigitsToNumber(SubSeq(s, 1, Len(s) - 1)) + (IndexIn(s[Len(s)], DigitChars) - 1)

AllDigits(s) ==
    /\ Len(s) > 0
    /\ \A i \in 1..Len(s) : IsDigit(s[i])

-----------------------------------------------------------------------------
(* The calendar *)

dayNames ==
    << <<"s","u","n","d","a","y">>,
       <<"m","o","n","d","a","y">>,
       <<"t","u","e","s","d","a","y">>,
       <<"w","e","d","n","e","s","d","a","y">>,
       <<"t","h","u","r","s","d","a","y">>,
       <<"f","r","i","d","a","y">>,
       <<"s","a","t","u","r","d","a","y">> >>

shortDayNames ==
    << <<"s","u","n">>,
       <<"m","o","n">>,
       <<"t","u","e">>,
       <<"w","e","d">>,
       <<"t","h","u">>,
       <<"f","r","i">>,
       <<"s","a","t">> >>

monthNames ==
    << <<"j","a","n","u","a","r","y">>,
       <<"f","e","b","r","u","a","r","y">>,
       <<"m","a","r","c","h">>,
       <<"a","p","r","i","l">>,
       <<"m","a","y">>,
       <<"j","u","n","e">>,
       <<"j","u","l","y">>,
       <<"a","u","g","u","s","t">>,
       <<"s","e","p","t","e","m","b","e","r">>,
       <<"o","c","t","o","b","e","r">>,
       <<"n","o","v","e","m","b","e","r">>,
       <<"d","e","c","e","m","b","e","r">> >>

shortMonthNames ==
    << <<"j","a","n">>,
       <<"f","e","b">>,
       <<"m","a","r">>,
       <<"a","p","r">>,
       <<"m","a","y">>,
       <<"j","u","n">>,
       <<"j","u","l">>,
       <<"a","u","g">>,
       <<"s","e","p">>,
       <<"o","c","t">>,
       <<"n","o","v">>,
       <<"d","e","c">> >>

IsLeapYear(y) ==
    (y % 4 = 0 /\ y % 100 # 0) \/ y % 400 = 0

DaysInMonth(y, m) ==
    IF m = 2 THEN (IF IsLeapYear(y) THEN 29 ELSE 28)
    ELSE IF m \in {4, 6, 9, 11} THEN 30
    ELSE 31

\* Days from 1 January of year 1 to the given date, both in the Gregorian calendar
RECURSIVE DaysBeforeMonth(_, _)
DaysBeforeMonth(y, m) ==
    IF m = 1 THEN 0 ELSE DaysBeforeMonth(y, m - 1) + DaysInMonth(y, m - 1)

DayNumber(y, m, d) ==
    365 * (y - 1) + ((y - 1) \div 4) - ((y - 1) \div 100) + ((y - 1) \div 400)
        + DaysBeforeMonth(y, m) + d

\* Date.prototype.getDay: 0 is Sunday (1 January of year 1 is a Monday)
GetDay(y, m, d) ==
    DayNumber(y, m, d) % 7

\* new Date(year, monthIndex, day) normalises fields out of range as the
\* language defines: months roll over into years, days into months.
RECURSIVE RollDays(_, _, _)
RollDays(y, m, d) ==
    IF d < 1
    THEN (IF m = 1 THEN RollDays(y - 1, 12, d + 31)
                   ELSE RollDays(y, m - 1, d + DaysInMonth(y, m - 1)))
    ELSE IF d > DaysInMonth(y, m)
    THEN (IF m = 12 THEN RollDays(y + 1, 1, d - 31)
                    ELSE RollDays(y, m + 1, d - DaysInMonth(y, m)))
    ELSE [year |-> y, month |-> m, date |-> d]

MakeDate(y, monthIndex, d) ==
    RollDays(y + (monthIndex \div 12), (monthIndex % 12) + 1, d)

todayDate == today.date
todayMonth == today.month
todayYear == today.year
dayOfWeek == GetDay(today.year, today.month, today.date)


-----------------------------------------------------------------------------
(* Text constants of the source *)

kwToday ==
    <<"t","o","d","a","y">>

kwTonight ==
    <<"t","o","n","i","g","h","t">>

nameEventbrite ==
    <<"E","v","e","n","t","b","r","i","t","e">>

nameBandsintown ==
    <<"B","a","n","d","s","i","n","t","o","w","n">>

nameSongkick ==
    <<"S","o","n","g","k","i","c","k">>

txtInvalidDate ==
    <<"I","n","v","a","l","i","d"," ","D","a","t","e">>

prefixHttp ==
    <<"h","t","t","p">>

\* title.length > 100 discards a container
MaxTitleLength ==
    100

\* containers.each returns at once for an index i >= 30
MaxContainers ==
    30

-----------------------------------------------------------------------------
(* Timestamps of embedded JSON.  A timestamp is absent, unparsable (an     *)
(* Invalid Date) or a calendar day in the local time zone.                 *)

NoDate ==
    [kind |-> "none", year |-> 0, month |-> 0, date |-> 0]

InvalidDate ==
    [kind |-> "invalid", year |-> 0, month |-> 0, date |-> 0]

DateOn(y, m, d) ==
    [kind |-> "date", year |-> y, month |-> m, date |-> d]

\* A startDate in the date-only form 'YYYY-MM-DD'
DateOnly(y, m, d) ==
    [kind |-> "dateOnly", year |-> y, month |-> m, date |-> d]

\* new Date(event.startDate): the language reads the date-only form as
\* midnight UTC, which west of Greenwich is an hour of the day before in
\* local time; a date and time without an offset is read as local time.
NewDate(start) ==
    IF start.kind = "dateOnly"
    THEN (IF utcOffset >= 0 THEN DateOn(start.year, start.month, start.date)
          ELSE IF start.date > 1 THEN DateOn(start.year, start.month, start.date - 1)
          ELSE IF start.month > 1
          THEN DateOn(start.year, start.month - 1, DaysInMonth(start.year, start.month - 1))
          ELSE DateOn(start.year - 1, 12, 31))
    ELSE start

\* dateObj.toLocaleTimeString('en-US', {hour: 'numeric', minute: '2-digit',
\* hour12: true}) at a full hour
ClockAt(hour) ==
    NumberToString(IF hour % 12 = 0 THEN 12 ELSE hour % 12)
        \o <<":", "0", "0", " ">> \o (IF hour < 12 THEN <<"A", "M">> ELSE <<"P", "M">>)

\* dateObj.toLocaleDateString('en-US', {weekday: 'short', month: 'short', day: 'numeric'})
ToLocaleDateString(d) ==
    IF d.kind = "invalid" THEN txtInvalidDate
    ELSE Capitalize(shortDayNames[GetDay(d.year, d.month, d.date) + 1]) \o <<",", " ">>
            \o Capitalize(shortMonthNames[d.month]) \o <<" ">> \o NumberToString(d.date)

\* dateObj.getDate() === todayDate && dateObj.getMonth() === todayMonth - 1 &&
\* dateObj.getFullYear() === todayYear, false when there is no dateObj
DateObjIsToday(d) ==
    /\ d.kind = "date"
    /\ d.date = todayDate
    /\ d.month = todayMonth
    /\ d.year = todayYear

-----------------------------------------------------------------------------
(* Event records *)

EventRecord(title, date, time, url, venue, source, sourceUrl, isToday) ==
    [ title |-> title, date |-> date, time |-> time, url |-> url, venue |-> venue,
      region |-> source.region, source_url |-> sourceUrl, is_today |-> isToday ]

\* a || b on strings
OrElse(a, b) ==
    IF Len(a) > 0 THEN a ELSE b

\* The title a JSON strategy reads from an item
JsonTitle(mode, item) ==
    IF mode = "hydration"
    THEN OrElse(item.title, OrElse(item.name, item.artistName))
    ELSE item.name

JsonDate(mode, item) ==
    IF item.start.kind # "none" THEN ToLocaleDateString(NewDate(item.start))
    ELSE IF mode = "hydration" THEN item.dateDescription
    ELSE <<>>

JsonTime(mode, item) ==
    IF mode = "serverData" THEN item.clock
    ELSE IF item.start.kind = "invalid" THEN txtInvalidDate
    ELSE IF item.start.kind = "date" THEN item.clock
    ELSE IF item.start.kind = "dateOnly" THEN ClockAt((24 + utcOffset) % 24)
    ELSE IF mode = "hydration" THEN item.timeDescription
    ELSE <<>>

\* A venue that stays empty when a hydration item names none.  Property
\* C23 tells it from the source.
JsonVenueOrEmpty(mode, item, source) ==
    IF mode = "hydration"
    THEN OrElse(item.venueName, OrElse(item.locationName, item.placeName))
    ELSE IF mode = "serverData" THEN OrElse(item.venueName, source.source)
    ELSE OrElse(item.locationName, source.source)

JsonVenue(mode, item, source) ==
    IF mode = "hydration"
    THEN OrElse(OrElse(item.venueName, OrElse(item.locationName, item.placeName)), source.source)
    ELSE IF mode = "serverData" THEN OrElse(item.venueName, source.source)
    ELSE OrElse(item.locationName, source.source)

JsonRecord(mode, item, source, sourceUrl) ==
    EventRecord(JsonTitle(mode, item), JsonDate(mode, item), JsonTime(mode, item),
                item.url, JsonVenue(mode, item, source), source, sourceUrl,
                DateObjIsToday(NewDate(item.start)))

\* items.forEach(event => { if (!title) return; ...; events.push({...}) }):
\* reading a property of a null item throws a TypeError, which ends the
\* forEach with the records pushed so far left in the events array.
RECURSIVE PushEach(_, _, _, _, _)
PushEach(items, mode, source, sourceUrl, acc) ==
    IF Len(items) = 0 THEN [events |-> acc, threw |-> FALSE]
    ELSE IF Head(items).kind = "null" THEN [events |-> acc, threw |-> TRUE]
    ELSE IF Len(JsonTitle(mode, Head(items))) = 0
         THEN PushEach(Tail(items), mode, source, sourceUrl, acc)
    ELSE PushEach(Tail(items), mode, source, sourceUrl,
                  Append(acc, JsonRecord(mode, Head(items), source, sourceUrl)))

\* parsedJson.some(item => item['@type'] === 'Event'): "throw" when a null
\* item is read before an Event is found
RECURSIVE SomeIsEvent(_)
SomeIsEvent(items) ==
    IF Len(items) = 0 THEN "false"
    ELSE IF Head(items).kind = "null" THEN "throw"
    ELSE IF Head(items).type = "Event" THEN "true"
    ELSE SomeIsEvent(Tail(items))

\* data['@graph'].filter(item => item['@type'] === 'Event')
GraphHasNull(items) ==
    \E i \in 1..Len(items) : items[i].kind = "null"

OnlyEvents(items) ==
    SelectSeq(items, LAMBDA it : it.kind # "null" /\ it.type = "Event")


-----------------------------------------------------------------------------
(* extractEvents: the Eventbrite block *)

\* An events array declared outside extractEvents and never reset: a call
\* starts with what the call before it left.  Property C7 tells it from the
\* source.
EventsOfEarlierCall ==
    events

\* const events = []
NewEvents ==
    <<>>

\* The ld+json block the Eventbrite scan selects (0 if none): a block that
\* does not parse, or whose test throws, is passed over by the inner catch.
EventbriteTagSelects(tag) ==
    /\ tag.parses
    /\ \/ tag.shape = "object" /\ tag.items[1].type = "Event"
       \/ tag.shape = "array" /\ SomeIsEvent(tag.items) = "true"

EventbriteSelectedTag(doc) ==
    IF \E i \in 1..Len(doc.ldJson) : EventbriteTagSelects(doc.ldJson[i])
    THEN CHOOSE i \in 1..Len(doc.ldJson) :
            /\ EventbriteTagSelects(doc.ldJson[i])
            /\ \A j \in 1..(i - 1) : ~EventbriteTagSelects(doc.ldJson[j])
    ELSE 0

\* jsonData of the Eventbrite block: parsed SERVER_DATA if there is any,
\* else {events: parsedJson} of the selected ld+json block, else null.
EventbriteJsonData(doc) ==
    IF doc.serverData.present /\ doc.serverData.parses
    THEN [found |-> TRUE, hasResults |-> doc.serverData.hasResults,
          results |-> doc.serverData.results, hasEvents |-> FALSE, eventData |-> <<>>]
    ELSE IF EventbriteSelectedTag(doc) > 0
    THEN [found |-> TRUE, hasResults |-> FALSE, results |-> <<>>, hasEvents |-> TRUE,
          eventData |-> doc.ldJson[EventbriteSelectedTag(doc)].items]
    ELSE [found |-> FALSE, hasResults |-> FALSE, results |-> <<>>, hasEvents |-> FALSE,
          eventData |-> <<>>]

\* The try block of the Eventbrite branch.  done: extractEvents returned
\* the events array; otherwise control goes on to the next block with
\* whatever the events array holds.
EventbriteBlock(doc, source, sourceUrl, evs) ==
    LET jsonData == EventbriteJsonData(doc)
        pushed == IF ~jsonData.found THEN [events |-> evs, threw |-> FALSE]
                  ELSE IF jsonData.hasResults
                       THEN PushEach(jsonData.results, "serverData", source, sourceUrl, evs)
                  ELSE IF jsonData.hasEvents
                       THEN PushEach(jsonData.eventData, "ldJson", source, sourceUrl, evs)
                  ELSE [events |-> evs, threw |-> FALSE]
    IN  [events |-> pushed.events,
         done |-> jsonData.found /\ ~pushed.threw /\ Len(pushed.events) > 0]

-----------------------------------------------------------------------------
(* extractEvents: the Bandsintown block *)

\* path[0].title || path[0].name || path[0].event_type || path[0].venue
LooksLikeEvent(item) ==
    \/ Len(item.title) > 0
    \/ Len(item.name) > 0
    \/ item.marker

\* for (const path of paths): st is [events, found, done, threw]
RECURSIVE HydrationPaths(_, _, _, _)
HydrationPaths(paths, source, sourceUrl, st) ==
    IF Len(paths) = 0 THEN st
    ELSE LET path == Head(paths) IN
         IF Len(path) = 0 THEN HydrationPaths(Tail(paths), source, sourceUrl, st)
         ELSE IF path[1].kind = "null" THEN [st EXCEPT !.threw = TRUE]
         ELSE IF ~LooksLikeEvent(path[1])
              THEN HydrationPaths(Tail(paths), source, sourceUrl, st)
         ELSE LET pushed == PushEach(path, "hydration", source, sourceUrl, st.events) IN
              IF pushed.threw
              THEN [events |-> pushed.events, found |-> TRUE, done |-> FALSE, threw |-> TRUE]
              ELSE IF Len(pushed.events) > 0
              THEN [events |-> pushed.events, found |-> TRUE, done |-> TRUE, threw |-> FALSE]
              ELSE HydrationPaths(Tail(paths), source, sourceUrl,
                                  [st EXCEPT !.events = pushed.events, !.found = TRUE])

\* for (const scriptTag of scriptTags): an exception inside one tag is
\* caught and the loop goes on to the next tag.
RECURSIVE HydrationTags(_, _, _, _)
HydrationTags(tags, source, sourceUrl, st) ==
    IF Len(tags) = 0 THEN st
    ELSE LET tag == Head(tags) IN
         IF ~tag.parses \/ ~tag.hasPageProps
         THEN HydrationTags(Tail(tags), source, sourceUrl, st)
         ELSE LET after == HydrationPaths(tag.paths, source, sourceUrl, st) IN
              IF after.done THEN after
              ELSE HydrationTags(Tail(tags), source, sourceUrl, [after EXCEPT !.threw = FALSE])

\* eventData of a JSON-LD block in the Bandsintown block: the object if it
\* is an Event, the array if its first item is one, else null
BandsintownEventData(tag) ==
    IF tag.shape = "object" /\ tag.items[1].type = "Event" THEN tag.items
    ELSE IF tag.shape = "array" /\ Len(tag.items) > 0 /\ tag.items[1].kind # "null"
            /\ tag.items[1].type = "Event" THEN tag.items
    ELSE <<>>

\* for (const tag of jsonLdTags), Approach 2 of the Bandsintown block
RECURSIVE BandsintownLdTags(_, _, _, _)
BandsintownLdTags(tags, source, sourceUrl, st) ==
    IF Len(tags) = 0 THEN st
    ELSE LET tag == Head(tags) IN
         IF ~tag.parses \/ Len(BandsintownEventData(tag)) = 0
         THEN BandsintownLdTags(Tail(tags), source, sourceUrl, st)
         ELSE LET pushed == PushEach(BandsintownEventData(tag), "ldJson", source, sourceUrl,
                                     st.events) IN
              IF ~pushed.threw /\ Len(pushed.events) > 0
              THEN [events |-> pushed.events, found |-> TRUE, done |-> TRUE, threw |-> FALSE]
              ELSE BandsintownLdTags(Tail(tags), source, sourceUrl,
                                     [st EXCEPT !.events = pushed.events, !.found = TRUE])

BandsintownBlock(doc, source, sourceUrl, evs) ==
    LET st0 == [events |-> evs, found |-> FALSE, done |-> FALSE, threw |-> FALSE]
        st1 == HydrationTags(doc.jsonScripts, source, sourceUrl, st0)
        st2 == IF st1.done \/ st1.found THEN st1
               ELSE BandsintownLdTags(doc.ldJson, source, sourceUrl, st1)
    IN  [events |-> st2.events, done |-> st2.done]

-----------------------------------------------------------------------------
(* extractEvents: generic JSON-LD extraction *)

\* eventData of a JSON-LD block in the generic block; threw when the
\* filter over @graph reads a null item
GenericEventData(tag) ==
    IF tag.shape = "object" /\ tag.items[1].type = "Event"
    THEN [items |-> tag.items, threw |-> FALSE]
    ELSE IF tag.shape = "array" /\ Len(tag.items) > 0 /\ tag.items[1].kind # "null"
            /\ tag.items[1].type = "Event"
    THEN [items |-> tag.items, threw |-> FALSE]
    ELSE IF tag.shape = "graph"
    THEN (IF GraphHasNull(tag.items) THEN [items |-> <<>>, threw |-> TRUE]
          ELSE [items |-> OnlyEvents(tag.items), threw |-> FALSE])
    ELSE [items |-> <<>>, threw |-> FALSE]

\* for (const tag of jsonLdTags) of the generic block
RECURSIVE GenericLdTags(_, _, _, _)
GenericLdTags(tags, source, sourceUrl, evs) ==
    IF Len(tags) = 0 THEN [events |-> evs, done |-> FALSE]
    ELSE LET tag == Head(tags) IN
         IF ~tag.parses \/ GenericEventData(tag).threw \/ Len(GenericEventData(tag).items) = 0
         THEN GenericLdTags(Tail(tags), source, sourceUrl, evs)
         ELSE LET pushed == PushEach(GenericEventData(tag).items, "ldJson", source, sourceUrl,
                                     evs) IN
              IF ~pushed.threw /\ Len(pushed.events) > 0
              THEN [events |-> pushed.events, done |-> TRUE]
              ELSE GenericLdTags(Tail(tags), source, sourceUrl, pushed.events)

GenericJsonBlock(doc, source, sourceUrl, evs) ==
    GenericLdTags(doc.ldJson, source, sourceUrl, evs)


-----------------------------------------------------------------------------
(* extractEvents: standard HTML extraction *)

\* A selector string that cheerio cannot parse: $(sel) and find(sel) throw.
Malformed(selector) ==
    selector = "["

\* The text of all elements a date or time selector matches, each trimmed,
\* the non-empty ones joined by a space, runs of white space collapsed
JoinedText(texts) ==
    Trim(CollapseSpaces(JoinWithSpace(
        SelectSeq([i \in 1..Len(texts) |-> Trim(texts[i])], LAMBDA t : Len(t) > 0))))

\* new URL(s) succeeds only for a string with a scheme
\* The first position of c in s at or after from, 0 when there is none
IndexOfFrom(s, c, from) ==
    IF \A i \in from..Len(s) : s[i] # c THEN 0
    ELSE CHOOSE i \in from..Len(s) : s[i] = c /\ \A j \in from..(i - 1) : s[j] # c

HasScheme(s) ==
    LET colon == IndexOfFrom(s, ":", 1) IN
    /\ colon > 1
    /\ \A i \in 1..(colon - 1) : IsWordChar(s[i]) /\ s[i] # "_"
    /\ ~IsDigit(s[1])

\* scheme://host of an absolute URL
UrlOrigin(base) ==
    LET colon == IndexOfFrom(base, ":", 1)
        slash == IndexOfFrom(base, "/", colon + 3)
    IN  IF slash = 0 THEN base ELSE SubSeq(base, 1, slash - 1)

\* scheme://host/path/ up to the last slash of the path
\* The last position of c in s at or before from, 0 when there is none
LastIndexOf(s, c, from) ==
    IF \A i \in 1..from : s[i] # c THEN 0
    ELSE CHOOSE i \in 1..from : s[i] = c /\ \A j \in (i + 1)..from : s[j] # c

UrlDirectory(base) ==
    LET colon == IndexOfFrom(base, ":", 1)
        slash == IndexOfFrom(base, "/", colon + 3)
    IN  IF slash = 0 THEN base \o <<"/">>
        ELSE SubSeq(base, 1, LastIndexOf(base, "/", Len(base)))

\* new URL(url, new URL(sourceUrl)).href inside try/catch, for a url without
\* dot segments, query or fragment: the href is kept when either URL fails
\* to parse.
ResolveUrl(url, sourceUrl) ==
    IF ~HasScheme(sourceUrl) THEN url
    ELSE IF HasScheme(url) THEN url
    ELSE IF StartsWith(url, <<"/", "/">>)
         THEN SubSeq(sourceUrl, 1, IndexOfFrom(sourceUrl, ":", 1)) \o url
    ELSE IF StartsWith(url, <<"/">>) THEN UrlOrigin(sourceUrl) \o url
    ELSE UrlDirectory(sourceUrl) \o url

HtmlTitle(c, source) ==
    IF source.title_selector = "" THEN <<>>
    ELSE OrElse(Trim(c.titleText), Trim(c.anchorText))

HtmlDate(c, source) ==
    IF source.date_selector = "" THEN <<>> ELSE JoinedText(c.dateTexts)

HtmlTime(c, source) ==
    IF source.time_selector = "" THEN <<>> ELSE JoinedText(c.timeTexts)

\* $(this).find(source.time_selector).first().text().trim() for Songkick
VenueNameFromHTML(c, source) ==
    IF source.source = nameSongkick /\ source.time_selector # "" /\ Len(c.timeTexts) > 0
    THEN Trim(c.timeTexts[1])
    ELSE <<>>

HtmlUrl(c, source, sourceUrl) ==
    IF source.url_selector = "" THEN <<>>
    ELSE IF Len(c.href) > 0 /\ ~StartsWith(c.href, prefixHttp)
         THEN ResolveUrl(c.href, sourceUrl)
    ELSE c.href

\* A classifier that looks for the keywords without lower-casing the date
\* text first.  Property C8 tells it from the source.
IsTodayCaseSensitive(date) ==
    /\ Len(date) > 0
    /\ \/ Includes(date, kwToday)
       \/ Includes(date, kwTonight)
       \/ /\ Includes(date, NumberToString(todayDate))
          /\ \/ Includes(date, monthNames[todayMonth])
             \/ Includes(date, shortMonthNames[todayMonth])
             \/ Includes(date, shortDayNames[dayOfWeek + 1])

\* A classifier without the weekday branch.  Property C21 tells it from the
\* source.
IsTodayByMonthOnly(date) ==
    /\ Len(date) > 0
    /\ LET lowerDate == ToLowerCase(date) IN
       \/ Includes(lowerDate, kwToday)
       \/ Includes(lowerDate, kwTonight)
       \/ /\ Includes(lowerDate, NumberToString(todayDate))
          /\ \/ Includes(lowerDate, monthNames[todayMonth])
             \/ Includes(lowerDate, shortMonthNames[todayMonth])

\* let isToday = false; if (date) { ... } of the container callback
IsTodayByDateText(date) ==
    /\ Len(date) > 0
    /\ LET lowerDate == ToLowerCase(date) IN
       \/ Includes(lowerDate, kwToday)
       \/ Includes(lowerDate, kwTonight)
       \/ /\ Includes(lowerDate, NumberToString(todayDate))
          /\ \/ Includes(lowerDate, monthNames[todayMonth])
             \/ Includes(lowerDate, shortMonthNames[todayMonth])
             \/ Includes(lowerDate, shortDayNames[dayOfWeek + 1])

\* A find() with a malformed selector throws inside the container's try block.
ContainerThrows(source) ==
    \/ Malformed(source.title_selector)
    \/ Malformed(source.date_selector)
    \/ Malformed(source.time_selector)
    \/ Malformed(source.url_selector)

\* A title check without the length limit.  Property C6 tells it from the
\* source.
TitleRejectedWhenEmpty(title) ==
    Len(title) = 0

\* if (!title || title.length > 100) return;
TitleRejected(title) ==
    Len(title) = 0 \/ Len(title) > MaxTitleLength

HtmlRecord(c, source, sourceUrl) ==
    IF source.source = nameSongkick
    THEN EventRecord(HtmlTitle(c, source), HtmlDate(c, source), <<>>,
                     HtmlUrl(c, source, sourceUrl),
                     OrElse(VenueNameFromHTML(c, source), source.source),
                     source, sourceUrl, IsTodayByDateText(HtmlDate(c, source)))
    ELSE EventRecord(HtmlTitle(c, source), HtmlDate(c, source), HtmlTime(c, source),
                     HtmlUrl(c, source, sourceUrl), source.source,
                     source, sourceUrl, IsTodayByDateText(HtmlDate(c, source)))

\* The callback throws inside its try block for this container: a find()
\* with a malformed selector, or an exception of reading the container's own
\* markup (text() recurses through the container's descendants and exhausts
\* the stack on markup nested too deep).
CallbackThrows(c, source) ==
    ContainerThrows(source) \/ c.throws

\* A cap that lets the container at index 30 through.  Property C5 tells it
\* from the source.
BeyondCapOffByOne(i) ==
    i > MaxContainers

\* if (i >= 30) return;   (i is the 0-based index of the container)
BeyondCap(i) ==
    i >= MaxContainers

\* The callback at the 1-based position k pushes a record: it neither
\* returns at the cap, nor throws, nor rejects the title.
PushesRecord(containers, k, source) ==
    /\ ~BeyondCap(k - 1)
    /\ ~CallbackThrows(containers[k], source)
    /\ ~TitleRejected(HtmlTitle(containers[k], source))

\* The records of the containers at the given positions, in their order
RecordsAt(containers, positions, source, sourceUrl) ==
    [n \in 1..Len(positions) |-> HtmlRecord(containers[positions[n]], source, sourceUrl)]

\* A loop whose try block is around the whole loop: the first exception
\* ends it.  Property C24 tells it from the source.
EachContainerUntilThrow(containers, source, sourceUrl, evs) ==
    evs \o RecordsAt(containers,
                 SelectSeq([k \in 1..Len(containers) |-> k],
                           LAMBDA k : /\ PushesRecord(containers, k, source)
                                      /\ \A j \in 1..k : ~CallbackThrows(containers[j], source)),
                 source, sourceUrl)

\* containers.each(function(i) { ... }): every callback runs, whatever the
\* others did, and the records are pushed in the order of the containers
EachContainer(containers, source, sourceUrl, evs) ==
    evs \o RecordsAt(containers,
                 SelectSeq([k \in 1..Len(containers) |-> k],
                           LAMBDA k : PushesRecord(containers, k, source)),
                 source, sourceUrl)

\* An extraction without the early return for a missing container selector.
\* Property C4 tells it from the source.
ContainerSelectorNotChecked(source) ==
    FALSE

\* if (!source.container_selector) { return events; }
NoContainerSelector(source) ==
    source.container_selector = ""

\* Standard HTML extraction: [events, threw]
HtmlExtraction(doc, source, sourceUrl, evs) ==
    IF NoContainerSelector(source) THEN [events |-> evs, threw |-> FALSE]
    ELSE IF Malformed(source.container_selector) THEN [events |-> evs, threw |-> TRUE]
    ELSE [events |-> EachContainer(doc.containers, source, sourceUrl, evs),
          threw |-> FALSE]

-----------------------------------------------------------------------------
(* extractEvents(html, source, sourceUrl): [events, threw], events being   *)
(* the events array when the call ends.  evs is the array the call starts  *)
(* with.                                                                   *)

AfterEventbrite(doc, source, sourceUrl, evs) ==
    IF source.source = nameEventbrite
    THEN EventbriteBlock(doc, source, sourceUrl, evs)
    ELSE [events |-> evs, done |-> FALSE]

AfterBandsintown(doc, source, sourceUrl, st) ==
    IF ~st.done /\ source.source = nameBandsintown
    THEN BandsintownBlock(doc, source, sourceUrl, st.events)
    ELSE st

AfterGenericJson(doc, source, sourceUrl, st) ==
    IF st.done THEN st ELSE GenericJsonBlock(doc, source, sourceUrl, st.events)

JsonExtraction(doc, source, sourceUrl, evs) ==
    AfterGenericJson(doc, source, sourceUrl,
        AfterBandsintown(doc, source, sourceUrl,
            AfterEventbrite(doc, source, sourceUrl, evs)))

ExtractEventsFrom(doc, source, sourceUrl, evs) ==
    LET After(json) ==
            IF json.done THEN [events |-> json.events, threw |-> FALSE]
            ELSE HtmlExtraction(doc, source, sourceUrl, json.events)
    IN  After(IF source.extraction_type = "json"
              THEN JsonExtraction(doc, source, sourceUrl, evs)
              ELSE [events |-> evs, done |-> FALSE])

extractEvents(doc, source, sourceUrl) ==
    ExtractEventsFrom(doc, source, sourceUrl, NewEvents)


-----------------------------------------------------------------------------
(* The process step: the csv 'end' handler and processHtmlFiles *)

\* url.replace(/[^a-z0-9]/gi, '_').toLowerCase()
sanitizeFilename(url) ==
    [i \in 1..Len(url) |->
        IF IsWordChar(url[i]) /\ url[i] # "_" THEN ToLowerChar(url[i]) ELSE "_"]

\* s.replace(/\s+/g, '_')
SpacesToUnderscore(s) ==
    ReplaceSpaceRuns(s, RunStarts(s), "_")

\* The file name of getHtmlFilePath(source)
getHtmlFilePath(source) ==
    SpacesToUnderscore(source.source) \o <<"_">> \o sanitizeFilename(source.url)
        \o <<".","h","t","m","l">>

\* fs.existsSync(htmlPath)
FileExists(source) ==
    getHtmlFilePath(source) \in DOMAIN htmlDumps.files

\* sources.filter(source => fs.existsSync(getHtmlFilePath(source))).map(...)
SuccessfulFetches ==
    SelectSeq(sources, FileExists)

\* sources.find(s => s.source === fetch.source)
SourceInfo(fetch) ==
    sources[CHOOSE i \in 1..Len(sources) :
                /\ sources[i].source = fetch.source
                /\ \A j \in 1..(i - 1) : sources[j].source # fetch.source]

\* The csv 'end' handler up to the call of processHtmlFiles
EndHandler ==
    /\ pc = "start"
    /\ IF ~htmlDumps.dir
       THEN /\ pc' = "exited"
            /\ UNCHANGED fetches
       ELSE /\ pc' = "loop"
            /\ fetches' = SuccessfulFetches
    /\ UNCHANGED << today, sources, htmlDumps, cursor, events, calls,
                    allEvents, allEventsFile, eventsFile, reportEvents, eventsByRegion, utcOffset, written >>
    /\ UNCHANGED fetchVars
    /\ UNCHANGED cleanupVars

\* One turn of fetches.forEach(fetch => { try { ... } catch (error) { ... } }):
\* readFileSync throws for a file that cannot be read, extractEvents may
\* throw; either way the catch logs and the loop goes on.
ExtractionOf(fetch) ==
    extractEvents(htmlDumps.files[getHtmlFilePath(fetch)], SourceInfo(fetch), fetch.url)

FetchThrows(fetch) ==
    \/ ~htmlDumps.files[getHtmlFilePath(fetch)].readable
    \/ ExtractionOf(fetch).threw

\* A loop whose try/catch encloses the whole forEach instead of one turn:
\* the first throwing fetch ends the loop.  Property C1 tells it from the
\* loop of the source.
NextCursorAborting(fetch) ==
    IF FetchThrows(fetch) THEN Len(fetches) + 1 ELSE cursor + 1

\* forEach goes on to the next fetch whether or not the callback's try
\* block threw.
NextCursor(fetch) ==
    cursor + 1

\* A push that leaves out the records the list already holds.  Property C15
\* tells it from the source.
RECURSIVE PushNew(_, _)
PushNew(list, records) ==
    IF Len(records) = 0 THEN list
    ELSE PushNew(IF \E i \in 1..Len(list) : list[i] = Head(records)
                 THEN list ELSE Append(list, Head(records)),
                 Tail(records))

\* allEvents.push(...events)
PushAll(list, records) ==
    list \o records

ProcessFetch ==
    /\ pc = "loop"
    /\ cursor <= Len(fetches)
    /\ LET Extracted(extraction) ==
               /\ events' = extraction.events
               /\ calls' = Append(calls, [fetch |-> cursor,
                                          threw |-> extraction.threw,
                                          result |-> extraction.events])
               /\ allEvents' = IF extraction.threw THEN allEvents
                               ELSE PushAll(allEvents, extraction.events)
       IN  IF ~htmlDumps.files[getHtmlFilePath(fetches[cursor])].readable
           THEN /\ UNCHANGED << events, calls, allEvents >>
           ELSE Extracted(ExtractionOf(fetches[cursor]))
    /\ cursor' = NextCursor(fetches[cursor])
    /\ UNCHANGED << today, sources, htmlDumps, pc, fetches,
                    allEventsFile, eventsFile, reportEvents, eventsByRegion, utcOffset, written >>
    /\ UNCHANGED fetchVars
    /\ UNCHANGED cleanupVars

\* event.region || 'Other Areas': a region is a value of the region column
RegionKey(event) ==
    IF event.region = "" THEN "Other Areas" ELSE event.region

txtUnknownVenue ==
    <<"U","n","k","n","o","w","n"," ","V","e","n","u","e">>

\* event.venue || 'Unknown Venue'
VenueKey(event) ==
    OrElse(event.venue, txtUnknownVenue)

txtConstructor ==
    <<"c","o","n","s","t","r","u","c","t","o","r">>

txtToString ==
    <<"t","o","S","t","r","i","n","g">>

\* const eventsByRegion = {} and eventsByRegion[region] = {} are plain
\* objects: a lookup of one of these keys finds the member inherited from
\* Object.prototype, a function.
InheritedNames ==
    {txtConstructor, txtToString}

\* The first record whose venue is an inherited name, or Len(list) + 1:
\* eventsByRegion[region][venue] is then truthy, no array is stored, and the
\* call of push on the inherited function throws a TypeError, which nothing
\* catches, so the forEach ends there.
FirstThrowing(list) ==
    IF \E i \in 1..Len(list) : VenueKey(list[i]) \in InheritedNames
    THEN CHOOSE i \in 1..Len(list) :
            /\ VenueKey(list[i]) \in InheritedNames
            /\ \A j \in 1..(i - 1) : VenueKey(list[j]) \notin InheritedNames
    ELSE Len(list) + 1

\* The records the forEach pushes: those before the one that throws
PushedEvents(list) ==
    SubSeq(list, 1, FirstThrowing(list) - 1)

\* The records the forEach starts on: the pushed ones and the one that throws
ReachedEvents(list) ==
    SubSeq(list, 1, IF FirstThrowing(list) > Len(list) THEN Len(list)
                    ELSE FirstThrowing(list))

\* The keys of an object in the order for...in enumerates them, the order
\* of their first assignment.  (The keys of the model are no array indices.)
FirstPositions(keys) ==
    SelectSeq([i \in 1..Len(keys) |-> i],
              LAMBDA i : \A j \in 1..(i - 1) : keys[j] # keys[i])

KeysInOrder(keys) ==
    [n \in 1..Len(FirstPositions(keys)) |-> keys[FirstPositions(keys)[n]]]

\* if (!eventsByRegion[region][venue]) eventsByRegion[region][venue] = [];
\* eventsByRegion[region][venue].push(event);
\* the venues of a region in the order of their first record, each with its
\* records in the order of the list
PushToVenue(list, venues) ==
    [v \in 1..Len(venues) |->
        [venue |-> venues[v],
         events |-> SelectSeq(list, LAMBDA event : VenueKey(event) = venues[v])]]

VenueKeys(list) ==
    [i \in 1..Len(list) |-> VenueKey(list[i])]

RegionKeys(list) ==
    [i \in 1..Len(list) |-> RegionKey(list[i])]

InRegion(list, region) ==
    SelectSeq(list, LAMBDA event : RegionKey(event) = region)

VenuesOfRegion(list, region) ==
    PushToVenue(InRegion(list, region), KeysInOrder(VenueKeys(InRegion(list, region))))

\* if (!eventsByRegion[region]) eventsByRegion[region] = {};
\* the regions in the order of their first record, that of the record that
\* throws included
WithRegion(list, regions) ==
    [r \in 1..Len(regions) |->
        [region |-> regions[r], venues |-> VenuesOfRegion(list, regions[r])]]

\* The forEach that fills eventsByRegion: [groups, threw]
GroupEvents(list) ==
    [groups |-> WithRegion(PushedEvents(list), KeysInOrder(RegionKeys(ReachedEvents(list)))),
     threw |-> FirstThrowing(list) <= Len(list)]

\* for (const region in eventsByRegion) for (const venue in ...) forEach:
\* the records in the order the report lists them
RECURSIVE VenuesInOrder(_)
VenuesInOrder(venues) ==
    IF Len(venues) = 0 THEN <<>>
    ELSE Head(venues).events \o VenuesInOrder(Tail(venues))

RECURSIVE RecordsInOrder(_)
RecordsInOrder(groups) ==
    IF Len(groups) = 0 THEN <<>>
    ELSE VenuesInOrder(Head(groups).venues) \o RecordsInOrder(Tail(groups))

\* all_events.json and events_<today>.json, written before the grouping
JsonOutputs ==
    {"all_events.json", "events_today.json"}

\* events_<today>.md and tonights_events.md, written after the grouping
ReportOutputs ==
    {"events_today.md", "tonights_events.md"}

\* Grouping and the two writes of the report: an exception of the forEach
\* ends the program before the report is written.
WriteReport(list) ==
    /\ eventsByRegion' = GroupEvents(list).groups
    /\ IF GroupEvents(list).threw
       THEN /\ pc' = "crashed"
            /\ written' = JsonOutputs
            /\ UNCHANGED reportEvents
       ELSE /\ pc' = "done"
            /\ written' = JsonOutputs \cup ReportOutputs
            /\ reportEvents' = RecordsInOrder(GroupEvents(list).groups)

\* The rest of processHtmlFiles in process-html.js: no filtering by date
WriteOutputs ==
    /\ pc = "loop"
    /\ cursor > Len(fetches)
    /\ allEventsFile' = allEvents
    /\ eventsFile' = allEvents
    /\ WriteReport(allEvents)
    /\ UNCHANGED << today, sources, htmlDumps, cursor, fetches, events, calls, allEvents, utcOffset >>
    /\ UNCHANGED fetchVars
    /\ UNCHANGED cleanupVars


-----------------------------------------------------------------------------
(* The process step of unnamed/part_002: two date passes *)

\* new Date(dateString) for a date text that names no year: V8, the engine
\* of Node.js, reads the month from a month name (its first three letters)
\* or from m/d, the day from the first number, and fills in the year 2001;
\* a text with neither is an Invalid Date.
\* The last position of the run of digits that starts at from, from - 1
\* when no digit is there
DigitRunEnd(s, from) ==
    IF from > Len(s) THEN from - 1
    ELSE CHOOSE e \in (from - 1)..Len(s) :
            /\ \A j \in from..e : IsDigit(s[j])
            /\ (e = Len(s) \/ ~IsDigit(s[e + 1]))

\* The first position of a digit in s at or after from, 0 when there is none
FirstDigit(s, from) ==
    IF \A i \in from..Len(s) : ~IsDigit(s[i]) THEN 0
    ELSE CHOOSE i \in from..Len(s) : IsDigit(s[i]) /\ \A j \in from..(i - 1) : ~IsDigit(s[j])

FirstNumber(s) ==
    DigitsToNumber(SubSeq(s, FirstDigit(s, 1), DigitRunEnd(s, FirstDigit(s, 1))))

NamedMonths(s) ==
    {m \in 1..Len(shortMonthNames) : Includes(s, shortMonthNames[m])}

LegacyDateParse(s) ==
    IF FirstDigit(s, 1) = 0 \/ NamedMonths(s) = {} THEN InvalidDate
    ELSE DateOn(2001, CHOOSE m \in NamedMonths(s) : \A n \in NamedMonths(s) : m <= n,
                FirstNumber(s))

\* The month and day of a string that is m<sep>d and nothing else
IsNumericPair(s, sep) ==
    LET at == IndexOfFrom(s, sep, 1) IN
    /\ at > 1
    /\ at < Len(s)
    /\ AllDigits(SubSeq(s, 1, at - 1))
    /\ AllDigits(SubSeq(s, at + 1, Len(s)))

NumericPairDate(s, sep) ==
    LET at == IndexOfFrom(s, sep, 1)
        made == MakeDate(todayYear, DigitsToNumber(SubSeq(s, 1, at - 1)) - 1,
                         DigitsToNumber(SubSeq(s, at + 1, Len(s))))
    IN  DateOn(made.year, made.month, made.date)

\* The try block at the end of the todaysEvents filter
ParsedDateIsToday(lowerDate) ==
    LET dateString == Trim(lowerDate)
        dateObj == IF IsNumericPair(dateString, ".") THEN NumericPairDate(dateString, ".")
                   ELSE IF IsNumericPair(dateString, "/") THEN NumericPairDate(dateString, "/")
                   ELSE LegacyDateParse(dateString)
    IN  /\ dateObj.kind # "invalid"
        /\ dateObj.date = todayDate
        /\ dateObj.month = todayMonth
        /\ (dateObj.year = todayYear \/ dateObj.year = 0)

NamesTodaysMonth(lowerDate) ==
    \/ Includes(lowerDate, monthNames[todayMonth])
    \/ Includes(lowerDate, shortMonthNames[todayMonth])

NamesTodaysWeekday(lowerDate) ==
    \/ Includes(lowerDate, dayNames[dayOfWeek + 1])
    \/ Includes(lowerDate, shortDayNames[dayOfWeek + 1])

\* otherMonths.some(month => lowerDate.includes(month))
HasOtherMonth(lowerDate) ==
    \E m \in 1..Len(monthNames) :
        \/ /\ monthNames[m] # monthNames[todayMonth]
           /\ monthNames[m] # shortMonthNames[todayMonth]
           /\ Includes(lowerDate, monthNames[m])
        \/ /\ shortMonthNames[m] # monthNames[todayMonth]
           /\ shortMonthNames[m] # shortMonthNames[todayMonth]
           /\ Includes(lowerDate, shortMonthNames[m])

\* The callback of allEvents.filter(...) that gives todaysEvents
IsTodaysEvent(event) ==
    \/ event.is_today
    \/ /\ Len(event.date) > 0
       /\ LET lowerDate == ToLowerCase(event.date)
              day == NumberToString(todayDate)
              month == NumberToString(todayMonth)
          IN  \/ Includes(lowerDate, kwToday)
              \/ Includes(lowerDate, kwTonight)
              \/ /\ NamesTodaysWeekday(lowerDate)
                 /\ NamesTodaysMonth(lowerDate)
                 /\ Includes(lowerDate, day)
              \/ /\ NamesTodaysMonth(lowerDate)
                 /\ \/ Includes(lowerDate, <<" ">> \o day)
                    \/ Includes(lowerDate, day \o <<",">>)
                    \/ Includes(lowerDate, day \o <<" ">>)
                    \/ EndsWith(lowerDate, day)
                 /\ ~HasOtherMonth(lowerDate)
              \/ MatchesWholeToken(lowerDate, month \o <<".">> \o day)
              \/ MatchesWholeToken(lowerDate, month \o <<"/">> \o day)
              \/ ParsedDateIsToday(lowerDate)

\* A day-name loop that looks for the full names only.  Property C10 tells
\* it from the source.
MentionsOtherFullWeekday(lowerDate) ==
    \E i \in 0..(Len(dayNames) - 1) :
        i # dayOfWeek /\ Includes(lowerDate, dayNames[i + 1])

\* The day-name loop of the strict filter
MentionsOtherWeekday(lowerDate) ==
    \E i \in 0..(Len(dayNames) - 1) :
        /\ i # dayOfWeek
        /\ \/ Includes(lowerDate, dayNames[i + 1])
           \/ Includes(lowerDate, shortDayNames[i + 1])

\* The otherDates loop of the strict filter
MentionsOtherDate(lowerDate) ==
    \E otherDate \in (1..31) \ {todayDate} :
        \/ Includes(lowerDate, <<" ">> \o NumberToString(otherDate))
        \/ Includes(lowerDate, NumberToString(otherDate) \o <<",">>)
        \/ MatchesWholeToken(lowerDate,
                NumberToString(todayMonth) \o <<"/">> \o NumberToString(otherDate))
        \/ MatchesWholeToken(lowerDate,
                NumberToString(todayMonth) \o <<".">> \o NumberToString(otherDate))

\* The callback of todaysEvents.filter(...) that gives strictlyFilteredEvents
PassesStrictFilter(event) ==
    \/ Len(event.date) = 0
    \/ /\ ~MentionsOtherWeekday(ToLowerCase(event.date))
       /\ ~MentionsOtherDate(ToLowerCase(event.date))

todaysEvents ==
    SelectSeq(allEvents, IsTodaysEvent)

\* A second pass over the flat list instead of the list of the first pass.
\* Property C30 tells it from the source.
strictlyFilteredFlatList ==
    SelectSeq(allEvents, PassesStrictFilter)

strictlyFilteredEvents ==
    SelectSeq(todaysEvents, PassesStrictFilter)

\* The rest of processHtmlFiles in part_002: filter, save, filter again, report
FilterAndWrite ==
    /\ pc = "loop"
    /\ cursor > Len(fetches)
    /\ allEventsFile' = allEvents
    /\ eventsFile' = todaysEvents
    /\ WriteReport(strictlyFilteredEvents)
    /\ UNCHANGED << today, sources, htmlDumps, cursor, fetches, events, calls, allEvents, utcOffset >>
    /\ UNCHANGED fetchVars
    /\ UNCHANGED cleanupVars


-----------------------------------------------------------------------------
(* The fetch step: fetch-html.js *)

\* Runs of fetch-html.js before the run of process-html.js
MaxFetchRuns ==
    2

\* The command-line argument: no venue, or the name of one
NoTarget ==
    [given |-> FALSE, name |-> <<>>]

Target(name) ==
    [given |-> TRUE, name |-> name]

\* targetVenue ? sources.filter(s => s.source.toLowerCase() ===
\* targetVenue.toLowerCase()) : sources
SourcesFor(target) ==
    IF target.given
    THEN SelectSeq(sources, LAMBDA row : ToLowerCase(row.source) = ToLowerCase(target.name))
    ELSE sources

\* No page is open in a browser that has just been launched
NoPages ==
    [open |-> 0, peak |-> 0]

\* const page = await browser.newPage()
NewPage(p) ==
    [open |-> p.open + 1, peak |-> IF p.open + 1 > p.peak THEN p.open + 1 ELSE p.peak]

\* await page.close()
ClosePage(p) ==
    [p EXCEPT !.open = p.open - 1]

\* The module scope and the csv 'end' handler up to the for loop: the
\* directory html_dumps is made, and a target venue that names no row ends
\* the run before the browser is launched.
BeginFetch(target) ==
    /\ pc = "start"
    /\ fetchRuns < MaxFetchRuns
    /\ htmlDumps' = [htmlDumps EXCEPT !.dir = TRUE]
    /\ sourcesToProcess' = SourcesFor(target)
    /\ fetchCursor' = 1
    /\ results' = <<>>
    /\ trail' = <<>>
    /\ pages' = NoPages
    /\ IF target.given /\ Len(SourcesFor(target)) = 0
       THEN /\ pc' = "start"
            /\ fetchRuns' = fetchRuns + 1
       ELSE /\ pc' = "fetching"
            /\ UNCHANGED fetchRuns
    /\ UNCHANGED << today, sources, cursor, fetches, events, calls, allEvents, allEventsFile,
                    eventsFile, reportEvents, eventsByRegion, utcOffset, written, fetchResultsFile >>
    /\ UNCHANGED cleanupVars

\* Math.floor(Math.random() * 2000) + 1000
RandomDelays ==
    {1000, 2000, 2999}

Navigation(source) ==
    [op |-> "goto", source |-> source.source, ms |-> 0]

\* await new Promise(resolve => setTimeout(resolve, ms))
Pause(kind, ms) ==
    [op |-> kind, source |-> <<>>, ms |-> ms]

SettleTime ==
    2000

\* results.push({source, url, success: true, file, selectors}) and
\* results.push({source, url, success: false, error})
FetchResult(source, success) ==
    [source |-> source.source, url |-> source.url, success |-> success,
     file |-> IF success THEN getHtmlFilePath(source) ELSE <<>>,
     error |-> ~success]

\* fs.writeFileSync(filepath, html): the file of the row now holds the page
SaveHtml(dumps, source, html) ==
    [dumps EXCEPT !.files =
        [f \in DOMAIN dumps.files \cup {getHtmlFilePath(source)} |->
            IF f = getHtmlFilePath(source) THEN html ELSE dumps.files[f]]]

\* One turn of for (const source of sourcesToProcess) { try {...} catch {...} }.
\* The page either is saved and closed ("saved"), or an awaited step of the
\* try block throws: browser.newPage ("newPageThrows"), page.goto
\* ("gotoThrows": a timeout, a name that does not resolve), a step after the
\* navigation and before the file is written ("laterThrows": page.content,
\* writeFileSync), or page.close after the file is written and the success
\* is pushed ("closeThrows").  The catch block pushes the failure and falls
\* through to the next turn; it closes no page.
FetchSource(outcome, html, delay) ==
    /\ pc = "fetching"
    /\ fetchCursor <= Len(sourcesToProcess)
    /\ LET source == sourcesToProcess[fetchCursor] IN
       IF outcome = "saved"
       THEN /\ htmlDumps' = SaveHtml(htmlDumps, source, html)
            /\ results' = Append(results, FetchResult(source, TRUE))
            /\ trail' = trail \o << Navigation(source), Pause("settle", SettleTime),
                                    Pause("delay", delay) >>
            /\ pages' = ClosePage(NewPage(pages))
       ELSE IF outcome = "closeThrows"
       THEN /\ htmlDumps' = SaveHtml(htmlDumps, source, html)
            /\ results' = results \o << FetchResult(source, TRUE), FetchResult(source, FALSE) >>
            /\ trail' = trail \o << Navigation(source), Pause("settle", SettleTime) >>
            /\ pages' = NewPage(pages)
       ELSE IF outcome = "newPageThrows"
       THEN /\ results' = Append(results, FetchResult(source, FALSE))
            /\ UNCHANGED << htmlDumps, trail, pages >>
       ELSE IF outcome = "gotoThrows"
       THEN /\ results' = Append(results, FetchResult(source, FALSE))
            /\ trail' = Append(trail, Navigation(source))
            /\ pages' = NewPage(pages)
            /\ UNCHANGED htmlDumps
       ELSE /\ results' = Append(results, FetchResult(source, FALSE))
            /\ trail' = trail \o << Navigation(source), Pause("settle", SettleTime) >>
            /\ pages' = NewPage(pages)
            /\ UNCHANGED htmlDumps
    /\ fetchCursor' = fetchCursor + 1
    /\ UNCHANGED << today, sources, pc, cursor, fetches, events, calls, allEvents, allEventsFile,
                    eventsFile, reportEvents, eventsByRegion, utcOffset, written,
                    sourcesToProcess, fetchResultsFile, fetchRuns >>
    /\ UNCHANGED cleanupVars

\* After the loop: the browser is closed and the report is written
EndFetch ==
    /\ pc = "fetching"
    /\ fetchCursor > Len(sourcesToProcess)
    /\ fetchResultsFile' = results
    /\ fetchRuns' = fetchRuns + 1
    /\ pages' = [pages EXCEPT !.open = 0]
    /\ pc' = "start"
    /\ UNCHANGED << today, sources, htmlDumps, cursor, fetches, events, calls, allEvents,
                    allEventsFile, eventsFile, reportEvents, eventsByRegion, utcOffset, written,
                    sourcesToProcess, fetchCursor, results, trail >>
    /\ UNCHANGED cleanupVars

-----------------------------------------------------------------------------
(* The cleanup step: unnamed/part_000 (cleanup-events.js) *)

NoFile ==
    [exists |-> FALSE, events |-> <<>>]

FileOf(list) ==
    [exists |-> TRUE, events |-> list]

\* The text of a JSON value: an array of events, another value, or text
\* that JSON.parse rejects
JsonText(kind, list) ==
    [kind |-> kind, events |-> list]

\* response.choices[0].message.content: prose around the payload or none, the
\* payload in a fence with the tag json ("json"), in a bare fence ("bare"),
\* in a fence written on one line ("inline"), or in no fence ("none")
Content(prose, fence, inner) ==
    [prose |-> prose, fence |-> fence, inner |-> inner]

\* What callOpenRouter gives: it rejects ("rejected"), resolves to a body
\* without choices[0].message ("noChoices"), or to one with a message
Response(status, content) ==
    [status |-> status, content |-> content]

NoResponse ==
    Response("none", Content(FALSE, "none", JsonText("garbage", <<>>)))

\* content.match(/```json\n([\s\S]*?)\n```/) || content.match(/```\n([\s\S]*?)\n```/)
\* || [null, content]: the text handed to JSON.parse.  Without a fence that
\* the patterns match it is the whole content, fence marks and prose
\* included.
JsonMatch(content) ==
    IF content.fence \in {"json", "bare"} THEN content.inner
    ELSE IF content.fence = "inline" \/ content.prose THEN JsonText("garbage", <<>>)
    ELSE content.inner

\* A parse that hands on an empty list where JSON.parse throws.  Property
\* C19 tells it from the source.
ParseNeverFails(text) ==
    FALSE

\* try { cleanedEvents = JSON.parse(jsonMatch[1]); } catch (e) { ...; throw e; }
ParseFails(text) ==
    text.kind = "garbage"

\* The try block of cleanupEvents after the response has arrived; the outer
\* catch logs whatever is thrown.  cleanedEvents.forEach throws for a value
\* that is no array, and the grouping loop for an inherited venue name,
\* after the cleaned JSON file is written.
CleanupWrites(response) ==
    IF response.status # "message" \/ ParseFails(JsonMatch(response.content))
    THEN UNCHANGED << cleanedFile, cleanedReport, reportEvents, eventsByRegion >>
    ELSE LET cleanedEvents == JsonMatch(response.content)
             grouped == GroupEvents(cleanedEvents.events)
         IN  /\ cleanedFile' = FileOf(cleanedEvents.events)
             /\ IF cleanedEvents.kind # "array"
                THEN UNCHANGED << cleanedReport, reportEvents, eventsByRegion >>
                ELSE /\ eventsByRegion' = grouped.groups
                     /\ IF grouped.threw
                        THEN UNCHANGED << cleanedReport, reportEvents >>
                        ELSE /\ cleanedReport' = FileOf(RecordsInOrder(grouped.groups))
                             /\ reportEvents' = RecordsInOrder(grouped.groups)

\* A check of the events file alone.  Property C25 tells it from the source.
EventsFileMissing ==
    "events_today.json" \notin written

\* if (!OPENROUTER_API_KEY) { ...; process.exit(1); } and
\* if (!fs.existsSync(eventsFilePath)) { ...; process.exit(1); }
PrerequisiteMissing ==
    ~apiKey \/ "events_today.json" \notin written

\* A run of the cleanup step after the process step has ended: it exits at
\* once without the API key or without events_<today>.json
CleanupEvents(response) ==
    /\ pc \in {"done", "crashed", "exited"}
    /\ IF PrerequisiteMissing
       THEN /\ pc' = "cleanupExited"
            /\ UNCHANGED << cleanedFile, cleanedReport, reportEvents, eventsByRegion, llmResponse >>
       ELSE /\ pc' = "cleanupEnded"
            /\ llmResponse' = response
            /\ CleanupWrites(response)
    /\ UNCHANGED << today, sources, htmlDumps, cursor, fetches, events, calls, allEvents,
                    allEventsFile, eventsFile, utcOffset, written, apiKey >>
    /\ UNCHANGED fetchVars

-----------------------------------------------------------------------------
(* Bounds of the model *)

\* Rows of sources.csv in a run of the default specification
MaxSources ==
    2

\* The most containers a document matches (above the cap of 30)
MaxDocContainers ==
    32

\* The reference dates range over the years FirstYear .. FirstYear + YearSpan
FirstYear ==
    2025

YearSpan ==
    0

-----------------------------------------------------------------------------
(* Inputs: embedded JSON items, documents, rows of sources.csv *)

Text(n, c) ==
    [i \in 1..n |-> c]

urlEvents ==
    <<"h","t","t","p","s",":","/","/","e","x","a","m","p","l","e",".","c","o","m","/","e","v","e","n","t","s","/">>

hrefRelative ==
    <<"/","s","h","o","w","/","1","2","3">>

hrefAbsolute ==
    <<"h","t","t","p","s",":","/","/","t","i","x",".","e","x","a","m","p","l","e",".","o","r","g","/","e","/","9">>

\* A path relative to the directory of the page
hrefPath ==
    <<"s","h","o","w","/","9">>

\* A relative path whose first segment begins with the letters http
hrefHttpNamed ==
    <<"h","t","t","p","-","n","i","g","h","t","/","7">>

\* An absolute URL of another scheme
hrefMail ==
    <<"m","a","i","l","t","o",":","a","@","b",".","c">>

\* A url column that new URL() rejects
urlNoScheme ==
    <<"e","x","a","m","p","l","e",".","c","o","m","/","e","v","e","n","t","s","/">>

nameVenue ==
    <<"T","h","e"," ","C","h","a","p","e","l">>

clockEight ==
    <<"8",":","0","0"," ","P","M">>

BaseItem ==
    [ kind |-> "object", type |-> "Event", name |-> <<>>, title |-> <<>>,
      artistName |-> <<>>, marker |-> FALSE, start |-> NoDate, clock |-> <<>>,
      url |-> <<>>, venueName |-> <<>>, locationName |-> <<>>, placeName |-> <<>>,
      dateDescription |-> <<>>, timeDescription |-> <<>> ]

NullItem ==
    [BaseItem EXCEPT !.kind = "null", !.type = ""]

\* The clock of the runs whose claims do not depend on the date
FixedToday ==
    [year |-> FirstYear, month |-> 5, date |-> 2]

\* The start date of the embedded events: the day of the run
TodayStamp ==
    DateOn(FixedToday.year, FixedToday.month, FixedToday.date)

EventItem(name) ==
    [BaseItem EXCEPT !.name = name, !.start = TodayStamp, !.clock = clockEight]

OrgItem(name) ==
    [BaseItem EXCEPT !.type = "Organization", !.name = name]

ItemSA == EventItem(<<"S","A">>)
ItemLB == EventItem(<<"L","B">>)
ItemHC == [EventItem(<<>>) EXCEPT !.title = <<"H","C">>, !.type = ""]
ItemOrg == OrgItem(<<"O","r","g">>)
ItemLong == EventItem(Text(MaxTitleLength + 1, "x"))
ItemNameless == [EventItem(<<>>) EXCEPT !.marker = TRUE]
ItemAtChapel == [EventItem(<<"A","C">>) EXCEPT !.locationName = nameVenue]
ItemAtConstructor == [EventItem(<<"C","T">>) EXCEPT !.locationName = txtConstructor]
ItemAtPlace == [EventItem(<<>>) EXCEPT !.title = <<"H","P">>, !.type = "", !.placeName = nameVenue]

NoServerData ==
    [present |-> FALSE, parses |-> FALSE, hasResults |-> FALSE, results |-> <<>>]

ServerData(parses, hasResults, items) ==
    [present |-> TRUE, parses |-> parses, hasResults |-> hasResults, results |-> items]

LdTag(shape, items) ==
    [parses |-> TRUE, shape |-> shape, items |-> items]

BadLdTag ==
    [parses |-> FALSE, shape |-> "object", items |-> <<NullItem>>]

ScriptTag(paths) ==
    [parses |-> TRUE, hasPageProps |-> TRUE, paths |-> paths]

BadScriptTag ==
    [parses |-> FALSE, hasPageProps |-> FALSE, paths |-> <<>>]

\* Container k of a document: its title is T<k>, so that a record names the
\* container it came from.
TitleOf(k) ==
    <<"T">> \o NumberToString(k)

PlainContainer(k) ==
    [ titleText |-> <<" ">> \o TitleOf(k) \o <<"\n">>, anchorText |-> <<>>,
      dateTexts |-> << <<" ","F","r","i","\n">>, <<"M","a","y"," "," ","2">> >>,
      timeTexts |-> << <<"D","o","o","r","s">>, clockEight >>,
      href |-> IF k % 2 = 1 THEN hrefRelative ELSE hrefAbsolute,
      throws |-> FALSE ]

\* The patterns of a document's containers:
\*   "plain"      every container has a short title
\*   "firstEmpty" container 1 has no title text, container 2 takes its
\*                title from the anchor inside the title element
\*   "long"       container 1 has a title of exactly 100 characters,
\*                container 2 one of 101
\*   "links"      the containers link to a root-relative path, an absolute
\*                URL, a relative path, a relative path beginning with
\*                http, a mailto: URL, and the last has an empty href
\*   "deep"       reading container 2 raises an exception
\*   "venues"     the time selector matches one element with two spaces
\*                inside its text in container 1, an empty element before
\*                the text in container 2, one plain element in container 3
VenueTextsOf(k) ==
    << << <<"T","h","e"," "," ","C","h","a","p","e","l">> >>,
       << <<" ">>, nameVenue >>,
       << nameVenue >> >>[((k - 1) % 3) + 1]

LinkOf(k) ==
    << hrefRelative, hrefAbsolute, hrefPath, hrefHttpNamed, hrefMail, <<>> >>[((k - 1) % 6) + 1]

ContainerOf(pattern, k) ==
    IF pattern = "links"
    THEN [PlainContainer(k) EXCEPT !.href = LinkOf(k)]
    ELSE IF pattern = "deep" /\ k = 2
    THEN [PlainContainer(k) EXCEPT !.throws = TRUE]
    ELSE IF pattern = "venues"
    THEN [PlainContainer(k) EXCEPT !.timeTexts = VenueTextsOf(k)]
    ELSE IF pattern = "firstEmpty" /\ k = 1
    THEN [PlainContainer(k) EXCEPT !.titleText = <<" ">>]
    ELSE IF pattern = "firstEmpty" /\ k = 2
    THEN [PlainContainer(k) EXCEPT !.titleText = <<>>, !.anchorText = TitleOf(k)]
    ELSE IF pattern = "long" /\ k = 1
    THEN [PlainContainer(k) EXCEPT !.titleText = Text(MaxTitleLength, "y")]
    ELSE IF pattern = "long" /\ k = 2
    THEN [PlainContainer(k) EXCEPT !.titleText = Text(MaxTitleLength + 1, "z")]
    ELSE PlainContainer(k)

ContainersOf(pattern, n) ==
    [k \in 1..n |-> ContainerOf(pattern, k)]

ContainerChoices ==
    { ContainersOf("plain", 0), ContainersOf("plain", 1), ContainersOf("firstEmpty", 2),
      ContainersOf("long", 3), ContainersOf("links", 6),
      ContainersOf("venues", 3), ContainersOf("deep", 3),
      ContainersOf("deep", MaxContainers + 1),
      ContainersOf("plain", MaxContainers + 1),
      ContainersOf("firstEmpty", MaxDocContainers) }

ServerDataChoices ==
    { NoServerData,
      ServerData(FALSE, FALSE, <<>>),
      ServerData(TRUE, FALSE, <<>>),
      ServerData(TRUE, TRUE, <<ItemSA>>),
      ServerData(TRUE, TRUE, <<ItemSA, NullItem>>),
      ServerData(TRUE, TRUE, <<ItemNameless, ItemLong>>) }

LdJsonChoices ==
    { <<>>,
      <<BadLdTag>>,
      <<LdTag("object", <<ItemLB>>)>>,
      <<LdTag("array", <<ItemLB, ItemOrg>>)>>,
      <<LdTag("array", <<ItemOrg, ItemLB>>)>>,
      <<LdTag("array", <<ItemLB, NullItem>>)>>,
      <<LdTag("graph", <<ItemOrg, ItemLB>>)>>,
      <<BadLdTag, LdTag("object", <<ItemLong>>)>> }

ScriptChoices ==
    { <<>>,
      <<ScriptTag(<< <<>>, <<ItemHC>>, <<>> >>)>>,
      <<ScriptTag(<< <<ItemHC, NullItem>>, <<>>, <<>> >>)>>,
      <<ScriptTag(<< <<>>, <<>>, <<ItemAtPlace, ItemHC>> >>)>>,
      <<BadScriptTag, ScriptTag(<< <<ItemNameless>>, <<>>, <<>> >>)>> }

Doc(serverData, ldJson, jsonScripts, containers) ==
    [ readable |-> TRUE, serverData |-> serverData, ldJson |-> ldJson,
      jsonScripts |-> jsonScripts, containers |-> containers ]

Row(name, url, type, container, title) ==
    [ source |-> name, region |-> "San Francisco", url |-> url, extraction_type |-> type,
      container_selector |-> container, title_selector |-> title,
      date_selector |-> ".date", time_selector |-> ".time", url_selector |-> "a" ]

RowChoices ==
    { Row(nameEventbrite, urlEvents, "json", ".event", ".title"),
      Row(nameBandsintown, urlEvents, "json", ".event", ".title"),
      Row(nameVenue, urlEvents, "json", ".event", ".title"),
      Row(nameVenue, urlEvents, "json", "", ".title"),
      Row(nameVenue, urlEvents, "standard", ".event", ".title"),
      Row(nameVenue, urlNoScheme, "standard", ".event", ".title"),
      Row(nameVenue, urlEvents, "standard", "", ".title"),
      Row(nameVenue, urlEvents, "standard", "[", ".title"),
      Row(nameVenue, urlEvents, "standard", ".event", "["),
      Row(nameSongkick, urlEvents, "standard", ".event", ".title"),
      Row(nameEventbrite, urlEvents, "standard", ".event", ".title") }

nameOther ==
    <<"B","o","t","t","o","m"," ","o","f"," ","t","h","e"," ","H","i","l","l">>

\* The listing address of the n-th case of a run
UrlOf(n) ==
    <<"h","t","t","p","s",":","/","/","e","x","a","m","p","l","e",".","c","o","m","/">>
        \o NumberToString(n) \o <<"/">>

UnreadableDoc ==
    [Doc(NoServerData, <<>>, <<>>, <<>>) EXCEPT !.readable = FALSE]

Case(row, doc, present) ==
    [row |-> row, doc |-> doc, present |-> present]

\* The rows a run reads from sources.csv, each with the file fetch-html.js
\* left for it in html_dumps/ (present) or did not leave (not present)
RunCases ==
    { Case(Row(nameVenue, UrlOf(1), "standard", ".event", ".title"),
           Doc(NoServerData, <<>>, <<>>, ContainersOf("plain", 2)), TRUE),
      Case(Row(nameSongkick, UrlOf(2), "standard", "[", ".title"),
           Doc(NoServerData, <<>>, <<>>, ContainersOf("plain", 1)), TRUE),
      Case(Row(nameEventbrite, UrlOf(3), "json", ".event", ".title"),
           Doc(ServerData(TRUE, TRUE, <<ItemSA, NullItem>>), <<>>, <<>>, ContainersOf("plain", 1)), TRUE),
      Case(Row(nameVenue, UrlOf(4), "standard", ".event", ".title"), UnreadableDoc, TRUE),
      Case(Row(nameBandsintown, UrlOf(5), "json", ".event", ".title"),
           Doc(NoServerData, <<>>, <<ScriptTag(<< <<ItemHC>>, <<>>, <<>> >>)>>, <<>>), FALSE),
      Case(Row(nameOther, UrlOf(6), "standard", "", ".title"),
           Doc(NoServerData, <<>>, <<>>, ContainersOf("plain", 1)), TRUE),
      Case(Row(nameOther, UrlOf(7), "json", ".event", ".title"),
           Doc(NoServerData, <<LdTag("object", <<ItemLB>>)>>, <<>>, ContainersOf("firstEmpty", 2)), TRUE),
      Case([Row(<<>>, UrlOf(8), "standard", ".event", ".title") EXCEPT !.region = ""],
           Doc(NoServerData, <<>>, <<>>, ContainersOf("plain", 2)), TRUE),
      Case(Row(nameOther, UrlOf(9), "json", ".event", ".title"),
           Doc(NoServerData, <<LdTag("array", <<ItemLB, ItemAtChapel, ItemSA>>)>>, <<>>, <<>>), TRUE),
      Case(Row(nameOther, UrlOf(10), "json", ".event", ".title"),
           Doc(NoServerData, <<LdTag("array", <<ItemLB, ItemAtConstructor, ItemSA>>)>>, <<>>, <<>>), TRUE) }

RECURSIVE SeqsUpTo(_, _)
SeqsUpTo(S, n) ==
    IF n = 0 THEN {<<>>}
    ELSE SeqsUpTo(S, n - 1) \cup {Append(q, x) : q \in SeqsUpTo(S, n - 1), x \in S}

RowsOf(cases) ==
    [i \in 1..Len(cases) |-> cases[i].row]

\* html_dumps/ holding the documents of the cases under the rows' file names
DumpsOf(dir, cases) ==
    LET kept == {i \in 1..Len(cases) : cases[i].present} IN
    [ dir |-> dir,
      files |-> [f \in {getHtmlFilePath(cases[i].row) : i \in kept} |->
                    cases[CHOOSE i \in kept : getHtmlFilePath(cases[i].row) = f].doc] ]

\* The offset of Pacific Daylight Time
PacificOffset ==
    0 - 7

StartWith(key, offset, day, cases, dir) ==
    /\ apiKey = key
    /\ utcOffset = offset
    /\ written = {}
    /\ today = day
    /\ sources = RowsOf(cases)
    /\ htmlDumps = DumpsOf(dir, cases)
    /\ pc = "start"
    /\ cursor = 1
    /\ fetches = <<>>
    /\ events = <<>>
    /\ calls = <<>>
    /\ allEvents = <<>>
    /\ allEventsFile = <<>>
    /\ eventsFile = <<>>
    /\ reportEvents = <<>>
    /\ eventsByRegion = <<>>
    /\ sourcesToProcess = <<>>
    /\ fetchCursor = 1
    /\ results = <<>>
    /\ fetchResultsFile = <<>>
    /\ trail = <<>>
    /\ fetchRuns = 0
    /\ pages = NoPages
    /\ cleanedFile = NoFile
    /\ cleanedReport = NoFile
    /\ llmResponse = NoResponse

StartIn(offset, day, cases, dir) ==
    StartWith(TRUE, offset, day, cases, dir)

StartOfRun(day, cases, dir) ==
    StartIn(PacificOffset, day, cases, dir)

\* A run of process-html.js over up to MaxSources rows
Init ==
    \E cases \in SeqsUpTo(RunCases, MaxSources), dir \in BOOLEAN :
        StartOfRun(FixedToday, cases, dir)

Next ==
    \/ EndHandler
    \/ ProcessFetch
    \/ WriteOutputs

Spec ==
    Init /\ [][Next]_vars

\* The rows and documents of the runs over one source: the rows of each
\* kind with every combination of the parts of the document that the kind
\* of row reads
RowsNamed(name, type) ==
    {row \in RowChoices : row.source = name /\ row.extraction_type = type}

ExtractCases ==
    {Case(row, Doc(sd, ld, <<>>, cs), TRUE) :
        row \in RowsNamed(nameEventbrite, "json"), sd \in ServerDataChoices,
        ld \in LdJsonChoices, cs \in ContainerChoices}
    \cup
    {Case(row, Doc(NoServerData, ld, js, cs), TRUE) :
        row \in RowsNamed(nameBandsintown, "json"), js \in ScriptChoices,
        ld \in LdJsonChoices, cs \in ContainerChoices}
    \cup
    {Case(row, Doc(NoServerData, ld, <<>>, cs), TRUE) :
        row \in RowsNamed(nameVenue, "json"), ld \in LdJsonChoices, cs \in ContainerChoices}
    \cup
    {Case(row, Doc(NoServerData, ld, <<>>, cs), TRUE) :
        row \in {r \in RowChoices : r.extraction_type = "standard"},
        ld \in {<<>>, <<LdTag("object", <<ItemLB>>)>>}, cs \in ContainerChoices}

\* A run of process-html.js over one row and one document
InitExtract ==
    \E case \in ExtractCases : StartOfRun(FixedToday, <<case>>, TRUE)

SpecExtract ==
    InitExtract /\ [][Next]_vars

-----------------------------------------------------------------------------
(* Runs of the process step of unnamed/part_002 on any day of the years *)

ReferenceDates ==
    { day \in [year : FirstYear..(FirstYear + YearSpan), month : 1..12, date : 1..31] :
        day.date <= DaysInMonth(day.year, day.month) }

WeekdayOf(day) ==
    GetDay(day.year, day.month, day.date)

\* The weekday after the day's own
NextWeekdayOf(day) ==
    (WeekdayOf(day) + 1) % 7

\* Another day of the same month
OtherDateOf(day) ==
    (day.date % 28) + 1

\* "<Weekday><infix><Month> <D>"
DatedText(weekday, infix, month, d) ==
    Capitalize(weekday) \o infix \o Capitalize(month) \o <<" ">> \o NumberToString(d)

\* The texts of the day itself: '<W>, <M> <D>' with full or three-letter names
OwnDateTexts(day) ==
    { DatedText(w, <<",", " ">>, m, day.date) :
        w \in {dayNames[WeekdayOf(day) + 1], shortDayNames[WeekdayOf(day) + 1]},
        m \in {monthNames[day.month], shortMonthNames[day.month]} }

KeywordTexts(day) ==
    { <<"T","o","d","a","y">>,
      <<"T","O","N","I","G","H","T">>,
      <<"L","a","t","e"," ","t","o","N","i","g","h","t">>,
      <<"T","o","d","a","y"," ","(">> \o Capitalize(shortDayNames[NextWeekdayOf(day) + 1]) \o <<")">> }

OtherTexts(day) ==
    { DatedText(shortDayNames[WeekdayOf(day) + 1], <<" ">>, shortMonthNames[day.month], day.date),
      Capitalize(monthNames[day.month]) \o <<" ">> \o NumberToString(day.date),
      NumberToString(day.month) \o <<"/">> \o NumberToString(day.date),
      NumberToString(day.month) \o <<".">> \o NumberToString(day.date),
      DatedText(shortDayNames[NextWeekdayOf(day) + 1], <<" ">>, shortMonthNames[day.month], day.date),
      DatedText(dayNames[NextWeekdayOf(day) + 1], <<",", " ">>, monthNames[day.month], day.date),
      DatedText(shortDayNames[WeekdayOf(day) + 1], <<" ">>, shortMonthNames[day.month], OtherDateOf(day)),
      Capitalize(dayNames[NextWeekdayOf(day) + 1]),
      <<>> }

\* Another month of the year
OtherMonthOf(day) ==
    (day.month % 12) + 1

\* Pairs (m, d), m in 1..12 and d in 1..31, to write as 'm/d' and 'm.d': the
\* day itself, another day, another month, the day counted on from the end
\* of the month before (30 April + 1 = '4/31' on 1 May), and pairs of which
\* the day's own pair is a part ('5/21' and '11/2' for 2 May and 2 January)
NumericPairs(day) ==
    { <<day.month, day.date>>, <<day.month, OtherDateOf(day)>>, <<OtherMonthOf(day), day.date>> }
    \cup (IF day.month > 1
          THEN { <<day.month - 1, DaysInMonth(day.year, day.month - 1) + day.date>> }
          ELSE {})
    \cup { <<day.month, 10 * day.date + 1>>, <<10 + day.month, day.date>> }

NumericTexts(day) ==
    { NumberToString(pair[1]) \o <<sep>> \o NumberToString(pair[2]) :
        pair \in {q \in NumericPairs(day) : q[1] \in 1..12 /\ q[2] \in 1..31},
        sep \in {"/", "."} }

\* Texts that hold the day of the month and name another month only
WrongMonthTexts(day) ==
    { Capitalize(shortMonthNames[OtherMonthOf(day)]) \o <<" ">> \o NumberToString(day.date),
      DatedText(shortDayNames[WeekdayOf(day) + 1], <<" ">>, shortMonthNames[OtherMonthOf(day)], day.date),
      DatedText(dayNames[NextWeekdayOf(day) + 1], <<",", " ">>, monthNames[OtherMonthOf(day)], day.date) }

DateTextsOf(day) ==
    OwnDateTexts(day) \cup KeywordTexts(day) \cup OtherTexts(day)
        \cup NumericTexts(day) \cup WrongMonthTexts(day)

DatedContainer(text) ==
    [ titleText |-> TitleOf(1), anchorText |-> <<>>,
      dateTexts |-> IF text = <<>> THEN <<>> ELSE <<text>>,
      timeTexts |-> <<clockEight>>, href |-> hrefAbsolute, throws |-> FALSE ]

\* One listing whose only container carries the date text, or whose only
\* embedded event starts on the given day
TodayCases(day) ==
    { Case(Row(nameVenue, urlEvents, "standard", ".event", ".title"),
           Doc(NoServerData, <<>>, <<>>, <<DatedContainer(text)>>), TRUE) :
        text \in DateTextsOf(day) }
    \cup
    { Case(Row(nameVenue, urlEvents, "json", ".event", ".title"),
           Doc(NoServerData,
               <<LdTag("object", <<[EventItem(<<"L","B">>) EXCEPT
                                        !.start = DateOn(d.year, d.month, d.date)]>>)>>,
               <<>>, <<>>), TRUE) :
        d \in {day, [day EXCEPT !.date = OtherDateOf(day)]} }

InitToday ==
    \E day \in ReferenceDates :
        \E case \in TodayCases(day) : StartOfRun(day, <<case>>, TRUE)

NextTwoPass ==
    \/ EndHandler
    \/ ProcessFetch
    \/ FilterAndWrite

SpecToday ==
    InitToday /\ [][NextTwoPass]_vars

-----------------------------------------------------------------------------
(* Runs of process-html.js over a standard source and a json source on any *)
(* day of the years, in a time zone west of, at, or east of Greenwich       *)

Offsets ==
    {PacificOffset, 0, 9}

nameBandY ==
    <<"B","a","n","d"," ","Y">>

\* Source A: one container with the date text '<short weekday> <short
\* month> <day>' of the day
ShortDateCase(day) ==
    Case(Row(nameVenue, UrlOf(1), "standard", ".event", ".title"),
         Doc(NoServerData, <<>>, <<>>,
             <<DatedContainer(DatedText(shortDayNames[WeekdayOf(day) + 1], <<" ">>,
                                        shortMonthNames[day.month], day.date))>>),
         TRUE)

\* Source B: one schema.org Event whose startDate is the given one
StartDateCase(start) ==
    Case(Row(nameOther, UrlOf(2), "json", ".event", ".title"),
         Doc(NoServerData, <<LdTag("object", <<[EventItem(nameBandY) EXCEPT !.start = start]>>)>>,
             <<>>, <<>>),
         TRUE)

\* The startDate of an event on the day, with a time of day and without
StartDatesOn(d) ==
    {DateOn(d.year, d.month, d.date), DateOnly(d.year, d.month, d.date)}

InitDated ==
    \E day \in ReferenceDates, offset \in Offsets :
        \E start \in StartDatesOn(day) \cup StartDatesOn([day EXCEPT !.date = OtherDateOf(day)]) :
            StartIn(offset, day, <<ShortDateCase(day), StartDateCase(start)>>, TRUE)

SpecDated ==
    InitDated /\ [][Next]_vars

-----------------------------------------------------------------------------
(* Runs of the process step of unnamed/part_002 over several listings *)

\* Container k of a listing, with a date text of its own
DatedContainerAt(k, text) ==
    [DatedContainer(text) EXCEPT !.titleText = TitleOf(k)]

\* The date texts of a listing on a day: the day itself, the day after, a
\* keyword, a day of which the day's number is a part, and no text
ListingTexts(day) ==
    << DatedText(shortDayNames[WeekdayOf(day) + 1], <<",", " ">>, shortMonthNames[day.month], day.date),
       DatedText(shortDayNames[NextWeekdayOf(day) + 1], <<",", " ">>, shortMonthNames[day.month],
                 day.date + 1),
       <<"T","o","n","i","g","h","t">>,
       Capitalize(shortMonthNames[day.month]) \o <<" ">> \o NumberToString(10 + day.date),
       <<>> >>

\* A listing with one container for each of the texts
ListingOn(day) ==
    [k \in 1..Len(ListingTexts(day)) |-> DatedContainerAt(k, ListingTexts(day)[k])]

\* A listing of Songkick: the events of today at two venues in turn
VenueListingOn(day) ==
    [k \in 1..3 |-> [DatedContainerAt(k, ListingTexts(day)[1]) EXCEPT !.timeTexts = VenueTextsOf(k + 1)]]

TwoPassCases ==
    { Case(Row(nameVenue, UrlOf(1), "standard", ".event", ".title"),
           Doc(NoServerData, <<>>, <<>>, ListingOn(FixedToday)), TRUE),
      Case(Row(nameSongkick, UrlOf(2), "standard", ".event", ".title"),
           Doc(NoServerData, <<>>, <<>>, VenueListingOn(FixedToday)), TRUE),
      Case(Row(nameOther, UrlOf(3), "json", ".event", ".title"),
           Doc(NoServerData, <<LdTag("array", <<ItemLB, ItemAtChapel, ItemSA>>)>>, <<>>, <<>>), TRUE),
      Case(Row(nameOther, UrlOf(4), "json", ".event", ".title"),
           Doc(NoServerData,
               <<LdTag("array", <<[ItemLB EXCEPT !.start = DateOn(FixedToday.year, FixedToday.month,
                                                               FixedToday.date + 1)],
                                  ItemOrg, ItemSA>>)>>, <<>>, <<>>), TRUE),
      Case(Row(nameOther, UrlOf(5), "json", ".event", ".title"),
           Doc(NoServerData, <<LdTag("array", <<ItemLB, ItemAtConstructor, ItemSA>>)>>, <<>>, <<>>), TRUE) }

InitTwoPass ==
    \E cases \in SeqsUpTo(TwoPassCases, MaxSources) : StartOfRun(FixedToday, cases, TRUE)

SpecTwoPass ==
    InitTwoPass /\ [][NextTwoPass]_vars

-----------------------------------------------------------------------------
(* Runs of fetch-html.js followed by a run of process-html.js *)

\* The page a navigation finds: it lists one event more in each run
PageOf(run) ==
    Doc(NoServerData, <<>>, <<>>, ContainersOf("plain", run))

FetchRows ==
    { <<Row(nameVenue, UrlOf(1), "standard", ".event", ".title")>>,
      <<Row(nameVenue, UrlOf(1), "standard", ".event", ".title"),
        Row(nameOther, UrlOf(2), "standard", ".event", ".title")>> }

Targets ==
    {NoTarget, Target(ToLowerCase(nameVenue)), Target(nameSongkick)}

InitFetch ==
    \E rows \in FetchRows :
        StartIn(PacificOffset, FixedToday,
                [i \in 1..Len(rows) |-> Case(rows[i], UnreadableDoc, FALSE)], FALSE)

FetchOutcomes ==
    {"saved", "newPageThrows", "gotoThrows", "laterThrows", "closeThrows"}

BeginFetchRun ==
    \E target \in Targets : BeginFetch(target)

FetchNext ==
    \E outcome \in FetchOutcomes, delay \in RandomDelays :
        FetchSource(outcome, PageOf(fetchRuns + 1), delay)

NextPipeline ==
    \/ BeginFetchRun
    \/ FetchNext
    \/ EndFetch
    \/ EndHandler
    \/ ProcessFetch
    \/ WriteOutputs

SpecFetch ==
    InitFetch /\ [][NextPipeline]_vars

-----------------------------------------------------------------------------
(* Runs of process-html.js followed by a run of the cleanup step *)

CleanupRuns ==
    { <<>>,
      <<Case(Row(nameVenue, UrlOf(1), "standard", ".event", ".title"),
             Doc(NoServerData, <<>>, <<>>, ContainersOf("plain", 2)), TRUE)>>,
      <<Case([Row(<<>>, UrlOf(8), "standard", ".event", ".title") EXCEPT !.region = ""],
             Doc(NoServerData, <<>>, <<>>, ContainersOf("plain", 2)), TRUE),
        Case(Row(nameOther, UrlOf(9), "json", ".event", ".title"),
             Doc(NoServerData, <<LdTag("array", <<ItemLB, ItemAtChapel, ItemSA>>)>>, <<>>, <<>>), TRUE)>>,
      <<Case(Row(nameOther, UrlOf(10), "json", ".event", ".title"),
             Doc(NoServerData, <<LdTag("array", <<ItemLB, ItemAtConstructor, ItemSA>>)>>, <<>>, <<>>), TRUE)>> }

\* The answers to a request to clean the list: the list itself, its first
\* record, no record, a JSON object, text that is no JSON
PayloadsFor(list) ==
    { JsonText("array", list),
      JsonText("array", IF Len(list) > 0 THEN <<list[1]>> ELSE <<>>),
      JsonText("array", <<>>),
      JsonText("object", <<>>),
      JsonText("garbage", <<>>) }

ResponsesFor(list) ==
    { Response("rejected", NoResponse.content), Response("noChoices", NoResponse.content) }
    \cup { Response("message", Content(prose, fence, inner)) :
              prose \in BOOLEAN, fence \in {"json", "bare", "inline", "none"},
              inner \in PayloadsFor(list) }

InitCleanup ==
    \E cases \in CleanupRuns, dir \in BOOLEAN, key \in BOOLEAN :
        StartWith(key, PacificOffset, FixedToday, cases, dir)

RunCleanup ==
    \E response \in ResponsesFor(eventsFile) : CleanupEvents(response)

NextCleanup ==
    \/ EndHandler
    \/ ProcessFetch
    \/ WriteOutputs
    \/ RunCleanup

SpecCleanup ==
    InitCleanup /\ [][NextCleanup]_vars

-----------------------------------------------------------------------------
(* Properties.  calls[k] is the k-th call of extractEvents of the run; the *)
(* operators below read the arguments of that call back from the state.    *)

CallSource(k) ==
    SourceInfo(fetches[calls[k].fetch])

CallUrl(k) ==
    fetches[calls[k].fetch].url

CallDoc(k) ==
    htmlDumps.files[getHtmlFilePath(fetches[calls[k].fetch])]

Returned(k) ==
    ~calls[k].threw

RECURSIVE FlatListUpTo(_)
FlatListUpTo(n) ==
    IF n = 0 THEN <<>>
    ELSE FlatListUpTo(n - 1) \o
            (IF FetchThrows(fetches[n]) THEN <<>> ELSE ExtractionOf(fetches[n]).events)

\* C1: processHtmlFiles does not abort on a source that throws (unreadable
\* file, exception in extractEvents): every fetch is visited, and the flat
\* list that is written is the concatenation, in source order, of the lists
\* of the sources that did not throw, a throwing source contributing nothing.
C1_FlatListSkipsThrowingSources ==
    /\ pc = "loop" => allEvents = FlatListUpTo(cursor - 1)
    /\ pc = "done" => /\ cursor = Len(fetches) + 1
                      /\ allEventsFile = FlatListUpTo(Len(fetches))

\* A finished run in which a source that throws came before a source with
\* records
C1_Witness ==
    /\ pc = "done"
    /\ Len(fetches) = 2
    /\ FetchThrows(fetches[1])
    /\ ~FetchThrows(fetches[2])
    /\ Len(ExtractionOf(fetches[2]).events) > 0
    /\ allEventsFile = ExtractionOf(fetches[2]).events

\* What one strategy yields for the call's document on a list of its own
OwnRecords(strategy, k) ==
    IF strategy = "specific"
    THEN (IF CallSource(k).source = nameEventbrite
          THEN EventbriteBlock(CallDoc(k), CallSource(k), CallUrl(k), <<>>).events
          ELSE IF CallSource(k).source = nameBandsintown
          THEN BandsintownBlock(CallDoc(k), CallSource(k), CallUrl(k), <<>>).events
          ELSE <<>>)
    ELSE IF strategy = "generic"
    THEN GenericJsonBlock(CallDoc(k), CallSource(k), CallUrl(k), <<>>).events
    ELSE HtmlExtraction(CallDoc(k), CallSource(k), CallUrl(k), <<>>).events

FirstSuccess(k) ==
    IF OwnRecords("specific", k) # <<>> THEN OwnRecords("specific", k)
    ELSE IF OwnRecords("generic", k) # <<>> THEN OwnRecords("generic", k)
    ELSE OwnRecords("html", k)

\* C2: for a json source the strategies are tried in the order
\* source-specific JSON, generic JSON-LD, HTML selectors; the first that
\* yields a record ends the dispatch and the call returns exactly that
\* strategy's records, no other strategy contributing any.
C2_FirstSuccessWins ==
    \A k \in 1..Len(calls) :
        (CallSource(k).extraction_type = "json" /\ Returned(k))
            => calls[k].result = FirstSuccess(k)

\* A call that returns the records of two strategies
C2_TwoStrategiesContribute ==
    \E k \in 1..Len(calls) :
        /\ CallSource(k).extraction_type = "json"
        /\ Returned(k)
        /\ OwnRecords("specific", k) # <<>>
        /\ OwnRecords("generic", k) # <<>>
        /\ calls[k].result = OwnRecords("specific", k) \o OwnRecords("generic", k)

\* No JSON strategy ended the dispatch of the call
EveryJsonStrategyFails(k) ==
    ~JsonExtraction(CallDoc(k), CallSource(k), CallUrl(k), <<>>).done

\* C3: a call for a json source for which every JSON strategy fails (no
\* embedded data, a parse error, an exception while mapping the items)
\* returns exactly the records of standard HTML selector extraction for
\* the same document and selectors.
C3_FallbackIsStandardExtraction ==
    \A k \in 1..Len(calls) :
        (CallSource(k).extraction_type = "json" /\ Returned(k) /\ EveryJsonStrategyFails(k))
            => calls[k].result = OwnRecords("html", k)

\* A fallback call that returns a record of a failed JSON strategy ahead
\* of the HTML records
C3_FallbackKeepsJsonRecord ==
    \E k \in 1..Len(calls) :
        /\ CallSource(k).extraction_type = "json"
        /\ Returned(k)
        /\ EveryJsonStrategyFails(k)
        /\ OwnRecords("html", k) # <<>>
        /\ Len(calls[k].result) > Len(OwnRecords("html", k))

\* C4: for a standard source with an empty or missing container selector
\* and any document, extractEvents returns an empty list and does not throw.
C4_NoContainerSelectorNoRecords ==
    \A k \in 1..Len(calls) :
        (CallSource(k).extraction_type = "standard" /\ CallSource(k).container_selector = "")
            => (calls[k].result = <<>> /\ Returned(k))

\* Such a call on a document that has containers and embedded events
C4_Witness ==
    \E k \in 1..Len(calls) :
        /\ CallSource(k).extraction_type = "standard"
        /\ CallSource(k).container_selector = ""
        /\ Len(CallDoc(k).containers) > 0
        /\ Len(CallDoc(k).ldJson) > 0
        /\ calls[k].result = <<>>

\* The positions of the records of a list whose title is that of one of the
\* containers at the positions ks of the call's document
FromContainers(k, ks) ==
    {i \in 1..Len(calls[k].result) : \E j \in ks : calls[k].result[i].title = TitleOf(j)}

FirstContainers(k) ==
    IF Len(CallDoc(k).containers) <= 30 THEN CallDoc(k).containers
    ELSE SubSeq(CallDoc(k).containers, 1, 30)

\* C5: HTML selector extraction reads only the first 30 containers
\* (indices 0 to 29): no container at index 30 or beyond yields a record,
\* a call yields at most 30 HTML records, and a container discarded among
\* the first 30 is not replaced by a later one.
C5_OnlyFirstThirtyContainers ==
    \A k \in 1..Len(calls) :
        /\ FromContainers(k, 31..Len(CallDoc(k).containers)) = {}
        /\ Cardinality(FromContainers(k, 1..Len(CallDoc(k).containers))) <= 30
        /\ (CallSource(k).extraction_type = "standard" /\ Returned(k))
              => calls[k].result =
                    HtmlExtraction([CallDoc(k) EXCEPT !.containers = FirstContainers(k)],
                                   CallSource(k), CallUrl(k), <<>>).events

\* A call on a document of more than 30 containers whose first container
\* is discarded: 29 records, none of a container past the 30th
C5_Witness ==
    \E k \in 1..Len(calls) :
        /\ CallSource(k).extraction_type = "standard"
        /\ Len(CallDoc(k).containers) > 30
        /\ Len(CallDoc(k).containers[1].titleText) = 1
        /\ Len(calls[k].result) = 29
        /\ calls[k].result[29].title = TitleOf(30)

\* The titles that the first 30 containers of the call's document offer,
\* those of 1 to 100 characters only, of containers read without exception
HtmlTitlesOf(containers, source) ==
    [i \in 1..Len(containers) |-> HtmlTitle(containers[i], source)]

AcceptedTitles(containers, source) ==
    HtmlTitlesOf(SelectSeq(containers,
                           LAMBDA c : ~c.throws /\ Len(HtmlTitle(c, source)) \in 1..100),
                 source)

TitlesOf(records) ==
    [i \in 1..Len(records) |-> records[i].title]

\* C6 as the specification states it: every record of every strategy has a
\* title of 1 to 100 characters.
C6_EveryTitleWithinLimit ==
    \A k \in 1..Len(calls) : \A i \in 1..Len(calls[k].result) :
        Len(calls[k].result[i].title) \in 1..100

\* C6: every record of every strategy has a non-empty title; the records
\* of HTML selector extraction have a title of at most 100 characters, and
\* a container whose title is empty or longer than 100 characters yields no
\* record.  (A JSON item is checked for a name only.)
C6_TitleNonEmptyAndHtmlWithinLimit ==
    \A k \in 1..Len(calls) :
        /\ \A i \in 1..Len(calls[k].result) : Len(calls[k].result[i].title) > 0
        /\ CallSource(k).extraction_type = "standard"
              => \A i \in 1..Len(calls[k].result) : Len(calls[k].result[i].title) <= 100
        /\ (CallSource(k).extraction_type = "standard" /\ Returned(k)
                /\ ~ContainerThrows(CallSource(k)) /\ ~NoContainerSelector(CallSource(k)))
              => TitlesOf(calls[k].result) = AcceptedTitles(FirstContainers(k), CallSource(k))

\* A call that keeps the container with a title of 100 characters and drops
\* the one with 101
C6_Witness ==
    \E k \in 1..Len(calls) :
        /\ CallSource(k).extraction_type = "standard"
        /\ Len(CallDoc(k).containers) = 3
        /\ Len(Trim(CallDoc(k).containers[2].titleText)) = 101
        /\ Len(calls[k].result) = 2
        /\ Len(calls[k].result[1].title) = 100
        /\ calls[k].result[2].title = TitleOf(3)

ContainsIgnoringCase(text, word) ==
    \E at \in 0..(Len(text) - Len(word)) :
        \A i \in 1..Len(word) : ToLowerChar(text[at + i]) = ToLowerChar(word[i])

HasTodayKeyword(text) ==
    ContainsIgnoringCase(text, kwToday) \/ ContainsIgnoringCase(text, kwTonight)

Holds(records, r) ==
    \E i \in 1..Len(records) : records[i] = r

\* C8: on every reference date an HTML-extracted record whose date text
\* contains 'today' or 'tonight' in any letter case has is_today = true, and
\* the lenient today filter keeps it.
C8_TodayKeywordIsToday ==
    /\ \A k \in 1..Len(calls) : \A i \in 1..Len(calls[k].result) :
          (CallSource(k).extraction_type = "standard" /\ HasTodayKeyword(calls[k].result[i].date))
              => calls[k].result[i].is_today = TRUE
    /\ pc = "done" =>
          \A i \in 1..Len(allEvents) :
              HasTodayKeyword(allEvents[i].date) => Holds(eventsFile, allEvents[i])

\* A finished run that kept a record dated 'TONIGHT'
C8_Witness ==
    /\ pc = "done"
    /\ \E i \in 1..Len(eventsFile) :
          /\ eventsFile[i].date = <<"T","O","N","I","G","H","T">>
          /\ eventsFile[i].is_today = TRUE
          /\ eventsFile[i].title = TitleOf(1)

\* C9: on every reference date a record whose date text is '<W>, <M> <D>'
\* with the date's own weekday name, month name and day of the month is
\* classified as today at extraction, kept by the lenient filter and kept
\* by the strict second pass, so it is in the today report.
C9_OwnDateTextIsReported ==
    /\ \A k \in 1..Len(calls) : \A i \in 1..Len(calls[k].result) :
          calls[k].result[i].date \in OwnDateTexts(today) => calls[k].result[i].is_today = TRUE
    /\ pc = "done" =>
          \A i \in 1..Len(allEvents) :
              allEvents[i].date \in OwnDateTexts(today)
                  => (Holds(eventsFile, allEvents[i]) /\ Holds(reportEvents, allEvents[i]))

\* A finished run whose record carries the date's own text, was classified
\* as today and kept by the lenient filter, and is missing from the report
C9_OwnDateTextDropped ==
    /\ pc = "done"
    /\ \E i \in 1..Len(eventsFile) :
          /\ eventsFile[i].date \in OwnDateTexts(today)
          /\ eventsFile[i].is_today = TRUE
          /\ ~Holds(reportEvents, eventsFile[i])

NamesOtherWeekday(text) ==
    \E i \in 0..6 :
        /\ i # GetDay(today.year, today.month, today.date)
        /\ \/ ContainsIgnoringCase(text, dayNames[i + 1])
           \/ ContainsIgnoringCase(text, shortDayNames[i + 1])

\* C10: after the strict second pass no record of the today report has a
\* date text that contains the full or three-letter name of a weekday other
\* than the reference weekday, whether or not extraction had marked the
\* record is_today = true.
C10_ReportNamesNoOtherWeekday ==
    pc = "done" =>
        \A i \in 1..Len(reportEvents) : ~NamesOtherWeekday(reportEvents[i].date)

\* A finished run whose record was marked is_today = true, passed the
\* lenient filter and was kept out of the report for naming another weekday
C10_Witness ==
    /\ pc = "done"
    /\ \E i \in 1..Len(eventsFile) :
          /\ eventsFile[i].is_today = TRUE
          /\ NamesOtherWeekday(eventsFile[i].date)
          /\ ~Holds(reportEvents, eventsFile[i])

\* The separator of a text that is digits, one '/' or '.', digits; "" for
\* any other text
NumericSeparator(text) ==
    IF IsNumericPair(text, "/") THEN "/"
    ELSE IF IsNumericPair(text, ".") THEN "."
    ELSE ""

MonthOfPair(text) ==
    DigitsToNumber(SubSeq(text, 1, IndexOfFrom(text, NumericSeparator(text), 1) - 1))

DayOfPair(text) ==
    DigitsToNumber(SubSeq(text, IndexOfFrom(text, NumericSeparator(text), 1) + 1, Len(text)))

IsMonthDayText(text) ==
    /\ NumericSeparator(text) # ""
    /\ MonthOfPair(text) \in 1..12
    /\ DayOfPair(text) \in 1..31

\* C11: on every reference date (month M, day D) a record whose date text is
\* 'm/d' or 'm.d', m in 1..12 and d in 1..31, is classified as today by the
\* today filter if and only if m = M and d = D.
C11_NumericTextTodayIffSameDay ==
    pc = "done" =>
        \A i \in 1..Len(allEvents) :
            IsMonthDayText(allEvents[i].date) =>
                (Holds(eventsFile, allEvents[i])
                    <=> (MonthOfPair(allEvents[i].date) = today.month
                            /\ DayOfPair(allEvents[i].date) = today.date))

\* A finished run that kept a record whose text 'm/d' is of another month
C11_OtherMonthKept ==
    /\ pc = "done"
    /\ \E i \in 1..Len(eventsFile) :
          /\ IsMonthDayText(eventsFile[i].date)
          /\ MonthOfPair(eventsFile[i].date) # today.month

NamesMonth(text, m) ==
    ContainsIgnoringCase(text, shortMonthNames[m])

\* C12: wrong month, right day is never today: on every reference date a
\* record whose date text holds the day of the month and names a month,
\* none of the months it names being the reference month, has is_today =
\* false and is not in the today set.
C12_WrongMonthNeverToday ==
    /\ \A k \in 1..Len(calls) : \A i \in 1..Len(calls[k].result) :
          LET text == calls[k].result[i].date IN
          (/\ CallSource(k).extraction_type = "standard"
           /\ ContainsIgnoringCase(text, NumberToString(today.date))
           /\ \E m \in 1..12 : NamesMonth(text, m)
           /\ ~NamesMonth(text, today.month))
              => calls[k].result[i].is_today = FALSE
    /\ pc = "done" =>
          \A i \in 1..Len(allEvents) :
              LET text == allEvents[i].date IN
              (/\ allEvents[i].venue = nameVenue
               /\ Len(allEvents[i].time) > 0
               /\ ContainsIgnoringCase(text, NumberToString(today.date))
               /\ \E m \in 1..12 : NamesMonth(text, m)
               /\ ~NamesMonth(text, today.month))
                  => ~Holds(eventsFile, allEvents[i])

\* A finished run that kept, and reported, a record whose text names the
\* day of the month with another month
C12_WrongMonthReported ==
    /\ pc = "done"
    /\ \E i \in 1..Len(reportEvents) :
          /\ reportEvents[i].is_today = TRUE
          /\ ContainsIgnoringCase(reportEvents[i].date, NumberToString(today.date))
          /\ NamesMonth(reportEvents[i].date, OtherMonthOf(today))
          /\ ~NamesMonth(reportEvents[i].date, today.month)


\* The containers among the first 30 of the call's document whose title has
\* 1 to 100 characters
AcceptedContainers(k) ==
    SelectSeq(FirstContainers(k),
              LAMBDA c : ~c.throws /\ Len(HtmlTitle(c, CallSource(k))) \in 1..100)

\* The URL standard's answer for an href on a page: an href with a scheme,
\* or on a page whose address does not parse, stays as it is
ResolvedOnPage(href, pageUrl) ==
    IF Len(href) = 0 \/ HasScheme(href) \/ ~HasScheme(pageUrl) THEN href
    ELSE IF StartsWith(href, <<"/", "/">>)
         THEN SubSeq(pageUrl, 1, IndexOfFrom(pageUrl, ":", 1)) \o href
    ELSE IF StartsWith(href, <<"/">>) THEN UrlOrigin(pageUrl) \o href
    ELSE UrlDirectory(pageUrl) \o href

urlShow123 ==
    <<"h","t","t","p","s",":","/","/","e","x","a","m","p","l","e",".","c","o","m","/","s","h","o","w","/","1","2","3">>

\* C13: for every container of standard extraction whose link has a
\* non-empty href, the record's url is the href unchanged when the href is
\* absolute, else the href resolved against the source page URL ('/show/123'
\* on 'https://example.com/events/' gives 'https://example.com/show/123'),
\* or the href unchanged when resolution fails; no container is dropped
\* because of its link.
C13_RelativeLinksAreResolved ==
    \A k \in 1..Len(calls) :
        (CallSource(k).extraction_type = "standard" /\ Returned(k)
            /\ ~ContainerThrows(CallSource(k)) /\ ~NoContainerSelector(CallSource(k)))
        => /\ Len(calls[k].result) = Len(AcceptedContainers(k))
           /\ \A i \in 1..Len(calls[k].result) :
                 LET href == AcceptedContainers(k)[i].href IN
                 /\ calls[k].result[i].url = ResolvedOnPage(href, CallUrl(k))
                 /\ (href = hrefRelative /\ CallUrl(k) = urlEvents)
                       => calls[k].result[i].url = urlShow123

\* A call on a page with a valid address that resolves '/show/123', keeps
\* an absolute href, and leaves the relative href 'http-night/7' as it is
C13_HttpNamedPathUnresolved ==
    \E k \in 1..Len(calls) :
        /\ CallSource(k).extraction_type = "standard"
        /\ CallUrl(k) = urlEvents
        /\ Len(calls[k].result) = 6
        /\ calls[k].result[1].url = urlShow123
        /\ calls[k].result[2].url = hrefAbsolute
        /\ AcceptedContainers(k)[4].href = hrefHttpNamed
        /\ calls[k].result[4].url = hrefHttpNamed

\* The buckets of eventsByRegion as a list of [region, venue, events]
RECURSIVE BucketsOf(_)
BucketsOf(groups) ==
    IF Len(groups) = 0 THEN <<>>
    ELSE [i \in 1..Len(Head(groups).venues) |->
            [region |-> Head(groups).region,
             venue |-> Head(groups).venues[i].venue,
             events |-> Head(groups).venues[i].events]]
         \o BucketsOf(Tail(groups))

InBucket(bucket, event) ==
    RegionKey(event) = bucket.region /\ VenueKey(event) = bucket.venue

\* The grouping loop of the run has ended, by its end or by an exception
GroupingEnded ==
    pc \in {"done", "crashed"}

\* C14: grouping partitions the flat list: every record is in exactly one
\* bucket, the one keyed by its region (or 'Other Areas') and its venue (or
\* 'Unknown Venue'), and the records of a bucket are in the order they have
\* in the flat list.
C14_GroupingPartitionsFlatList ==
    GroupingEnded =>
        LET buckets == BucketsOf(eventsByRegion) IN
        /\ \A i \in 1..Len(allEvents) :
              Cardinality({b \in 1..Len(buckets) : Holds(buckets[b].events, allEvents[i])}) = 1
        /\ \A b \in 1..Len(buckets) :
              buckets[b].events = SelectSeq(allEvents, LAMBDA e : InBucket(buckets[b], e))
        /\ \A a, b \in 1..Len(buckets) :
              (buckets[a].region = buckets[b].region /\ buckets[a].venue = buckets[b].venue)
                  => a = b

\* A run that ends in the grouping loop at a record whose venue is
\* 'constructor': the JSON files are written, the record and those after it
\* are in no bucket, and no report is written
C14_InheritedVenueEndsGrouping ==
    /\ pc = "crashed"
    /\ Len(allEventsFile) = 3
    /\ allEventsFile[2].venue = txtConstructor
    /\ \A b \in 1..Len(BucketsOf(eventsByRegion)) :
          /\ ~Holds(BucketsOf(eventsByRegion)[b].events, allEventsFile[2])
          /\ ~Holds(BucketsOf(eventsByRegion)[b].events, allEventsFile[3])
    /\ reportEvents = <<>>

\* The number of records that the calls before the k-th that returned
\* handed to the flat list
RECURSIVE Offset(_)
Offset(k) ==
    IF k <= 1 THEN 0
    ELSE Offset(k - 1) + (IF Returned(k - 1) THEN Len(calls[k - 1].result) ELSE 0)

\* C15: the flat list written as all_events.json is the concatenation of the
\* lists the calls of extractEvents returned, in the order of the calls, each
\* list in container order; its length is the sum of their lengths, and
\* equal records of two calls are both in it.
C15_FlatListIsConcatenation ==
    GroupingEnded =>
        /\ Len(allEventsFile) = Offset(Len(calls) + 1)
        /\ \A k \in 1..Len(calls) :
              Returned(k) =>
                  /\ SubSeq(allEventsFile, Offset(k) + 1, Offset(k) + Len(calls[k].result))
                        = calls[k].result
                  /\ (CallSource(k).extraction_type = "standard"
                        /\ ~ContainerThrows(CallSource(k)) /\ ~NoContainerSelector(CallSource(k)))
                     => TitlesOf(calls[k].result)
                            = AcceptedTitles(FirstContainers(k), CallSource(k))

\* A finished run over two rows with the same records: the file holds each
\* of them twice
C15_Witness ==
    /\ pc = "done"
    /\ Len(calls) = 2
    /\ Len(calls[1].result) = 2
    /\ calls[2].result = calls[1].result
    /\ Len(allEventsFile) = 4
    /\ allEventsFile[3] = allEventsFile[1]
    /\ allEventsFile[4] = allEventsFile[2]

\* The startDate of the only embedded event of the call's document
StartDateOf(k) ==
    CallDoc(k).ldJson[1].items[1].start

StartsToday(k) ==
    /\ StartDateOf(k).year = today.year
    /\ StartDateOf(k).month = today.month
    /\ StartDateOf(k).date = today.date

\* C16: end to end, on every reference date: a standard source with one
\* container dated '<short weekday> <short month> <day>' of the reference
\* date and a json source with one schema.org Event give one record each,
\* the flat list holds exactly these two in source order, the first has
\* is_today = true, and the second has is_today = true when its startDate
\* is on the reference calendar day and false when it is on another day.
C16_BothSourcesClassified ==
    pc = "done" =>
        /\ Len(calls) = 2
        /\ Len(calls[1].result) = 1
        /\ Len(calls[2].result) = 1
        /\ allEventsFile = calls[1].result \o calls[2].result
        /\ allEventsFile[1].title = TitleOf(1)
        /\ allEventsFile[1].is_today = TRUE
        /\ allEventsFile[2].title = nameBandY
        /\ allEventsFile[2].is_today = StartsToday(2)

\* A finished run west of Greenwich whose event has the startDate
\* 'YYYY-MM-DD' of the reference day and is_today = false
C16_DateOnlyStartIsYesterday ==
    /\ pc = "done"
    /\ utcOffset < 0
    /\ Len(allEventsFile) = 2
    /\ allEventsFile[1].is_today = TRUE
    /\ StartDateOf(2).kind = "dateOnly"
    /\ StartsToday(2)
    /\ allEventsFile[2].is_today = FALSE

\* The date text names the reference date: its first number is the day of
\* the month and it names the month
NamesReferenceDate(text) ==
    /\ FirstDigit(text, 1) > 0
    /\ FirstNumber(text) = today.date
    /\ NamesMonth(text, today.month)

\* The date text names a day of the month other than the reference date's
NamesOtherDayOnly(text) ==
    /\ FirstDigit(text, 1) > 0
    /\ FirstNumber(text) # today.date
    /\ ~HasTodayKeyword(text)

\* C18: every record written to events_<today>.json is an event for today:
\* it has is_today = true or its date text names the reference date; a
\* record whose date text names only another day is not in the file.
C18_DatedFileHoldsTodayOnly ==
    pc = "done" =>
        \A i \in 1..Len(eventsFile) :
            /\ eventsFile[i].is_today \/ NamesReferenceDate(eventsFile[i].date)
            /\ ~NamesOtherDayOnly(eventsFile[i].date)

\* A finished run whose events_<today>.json holds the record of an event
\* that starts at a time of day of another day: is_today is false and the
\* date text is that other day's
C18_OtherDayInDatedFile ==
    /\ pc = "done"
    /\ Len(eventsFile) = 2
    /\ StartDateOf(2).kind = "date"
    /\ ~StartsToday(2)
    /\ eventsFile[2].is_today = FALSE
    /\ eventsFile[2].date = ToLocaleDateString(StartDateOf(2))
    /\ NamesOtherDayOnly(eventsFile[2].date)

\* The positions of the navigations in the trail of the fetch run
Navigations ==
    {i \in 1..Len(trail) : trail[i].op = "goto"}

\* C20: in a run of fetch-html.js, between every two consecutive page
\* navigations a random delay of 1 to 3 seconds is executed, whether the
\* earlier navigation succeeded or failed.
C20_DelayBetweenNavigations ==
    \A i, j \in Navigations :
        (i < j /\ \A k \in (i + 1)..(j - 1) : k \notin Navigations)
            => \E k \in (i + 1)..(j - 1) :
                  trail[k].op = "delay" /\ trail[k].ms >= 1000 /\ trail[k].ms < 3000

\* A run whose first navigation throws and whose second navigation follows
\* it with no delay in between
C20_NoDelayAfterFailure ==
    /\ Len(results) = 2
    /\ results[1].success = FALSE
    /\ Len(trail) >= 2
    /\ trail[1].op = "goto"
    /\ trail[2].op = "goto"

\* The process run has chosen its fetches
ProcessRunning ==
    pc \in {"loop", "done", "crashed"}

\* The row is one the process run handles
IsProcessed(source, url) ==
    \E j \in 1..Len(fetches) : fetches[j].source = source /\ fetches[j].url = url

\* C17: a source whose most recent fetch failed is skipped by the next run
\* of the process step, also when an older saved document of it is on disk.
C17_FailedFetchIsSkipped ==
    ProcessRunning =>
        \A i \in 1..Len(fetchResultsFile) :
            ~fetchResultsFile[i].success
                => ~IsProcessed(fetchResultsFile[i].source, fetchResultsFile[i].url)

\* A finished process run after two fetch runs, the second of which failed
\* for the only source: the records of the page saved by the first run are
\* in all_events.json
C17_StaleDocumentProcessed ==
    /\ pc = "done"
    /\ fetchRuns = 2
    /\ Len(sources) = 1
    /\ Len(fetchResultsFile) = 1
    /\ ~fetchResultsFile[1].success
    /\ Len(calls) = 1
    /\ CallDoc(1) = PageOf(1)
    /\ Len(allEventsFile) = 1

\* The content of the answer is no JSON once an optional code fence around
\* it is taken off
NotJsonAfterFence(response) ==
    /\ response.status = "message"
    /\ \/ response.content.inner.kind = "garbage"
       \/ response.content.prose /\ response.content.fence = "none"

\* The files of the process step hold what the process step wrote
ProcessOutputsKept ==
    /\ allEventsFile = allEvents
    /\ eventsFile = allEvents
    /\ reportEvents = (IF GroupEvents(allEvents).threw THEN <<>>
                       ELSE RecordsInOrder(GroupEvents(allEvents).groups))

\* C19: when the content of the LLM response is not parseable as JSON after
\* the optional code fence is stripped, the cleanup step writes none of its
\* outputs: the cleaned JSON and markdown files are not created, and
\* tonights_events.md, all_events.json and events_<date>.json keep what the
\* process step wrote.
C19_UnparsableAnswerWritesNothing ==
    (pc = "cleanupEnded" /\ NotJsonAfterFence(llmResponse))
        => /\ ~cleanedFile.exists
           /\ ~cleanedReport.exists
           /\ ProcessOutputsKept

\* A cleanup run on a list of records that received a fenced answer that
\* is no JSON
C19_Witness ==
    /\ pc = "cleanupEnded"
    /\ Len(eventsFile) > 0
    /\ llmResponse.status = "message"
    /\ llmResponse.content.fence = "json"
    /\ llmResponse.content.inner.kind = "garbage"
    /\ ~cleanedFile.exists
    /\ reportEvents # <<>>

-----------------------------------------------------------------------------
(* C21 *)

\* The date text holds the day of the month in decimal digits
HoldsDayOfMonth(text) ==
    ContainsIgnoringCase(text, NumberToString(today.date))

\* The date text holds the full or three-letter name of the reference month
HoldsReferenceMonth(text) ==
    \/ ContainsIgnoringCase(text, monthNames[today.month])
    \/ ContainsIgnoringCase(text, shortMonthNames[today.month])

\* The date text holds the full or three-letter name of the reference weekday
HoldsReferenceWeekday(text) ==
    \/ ContainsIgnoringCase(text, dayNames[WeekdayOf(today) + 1])
    \/ ContainsIgnoringCase(text, shortDayNames[WeekdayOf(today) + 1])

\* C21: the is_today flag of a record of HTML extraction is true exactly
\* when its date text is not empty and, in any letter case, holds 'today' or
\* 'tonight', or holds the day of the month of the reference date together
\* with the full or three-letter name of its month or of its weekday; it is
\* false in every other case, an empty date text included.
C21_IsTodayFlagOfHtmlRecord ==
    \A k \in 1..Len(calls) : \A i \in 1..Len(calls[k].result) :
        LET text == calls[k].result[i].date IN
        CallSource(k).extraction_type = "standard" =>
            (calls[k].result[i].is_today
                <=> (/\ Len(text) > 0
                     /\ \/ HasTodayKeyword(text)
                        \/ /\ HoldsDayOfMonth(text)
                           /\ HoldsReferenceMonth(text) \/ HoldsReferenceWeekday(text)))

\* A record flagged through the weekday alone: its text holds the day of the
\* month and the weekday, and names another month
C21_Witness ==
    \E k \in 1..Len(calls) : \E i \in 1..Len(calls[k].result) :
        /\ CallSource(k).extraction_type = "standard"
        /\ calls[k].result[i].is_today = TRUE
        /\ ~HasTodayKeyword(calls[k].result[i].date)
        /\ HoldsDayOfMonth(calls[k].result[i].date)
        /\ HoldsReferenceWeekday(calls[k].result[i].date)
        /\ ~HoldsReferenceMonth(calls[k].result[i].date)

-----------------------------------------------------------------------------
(* C22 *)

\* A call of standard extraction that went through the containers
StandardCall(k) ==
    /\ CallSource(k).extraction_type = "standard"
    /\ Returned(k)
    /\ ~ContainerThrows(CallSource(k))
    /\ ~NoContainerSelector(CallSource(k))

\* The value resolved for the time selector in a container
ResolvedTime(k, c) ==
    IF CallSource(k).time_selector = "" THEN <<>> ELSE JoinedText(c.timeTexts)

\* C22: every HTML record of the source named 'Songkick' has an empty time
\* and, as venue, the value resolved for the time selector (the text of all
\* matching elements joined, white space collapsed), or the source name when
\* that value is empty; every HTML record of another source has the source
\* name as venue and the resolved time value as time.
C22_SongkickVenueIsResolvedTime ==
    \A k \in 1..Len(calls) :
        StandardCall(k) =>
            /\ Len(calls[k].result) = Len(AcceptedContainers(k))
            /\ \A i \in 1..Len(calls[k].result) :
                  LET value == ResolvedTime(k, AcceptedContainers(k)[i]) IN
                  IF CallSource(k).source = nameSongkick
                  THEN /\ calls[k].result[i].time = <<>>
                       /\ calls[k].result[i].venue
                             = (IF Len(value) > 0 THEN value ELSE CallSource(k).source)
                  ELSE /\ calls[k].result[i].time = value
                       /\ calls[k].result[i].venue = CallSource(k).source

\* Songkick records of a document in which the time selector matches an
\* empty element before the venue's: the venue is the source name although
\* the resolved value is 'The Chapel'; and of a document in which it matches
\* one element only, whose text is the venue
C22_FirstElementOnly ==
    \E k \in 1..Len(calls) :
        /\ StandardCall(k)
        /\ CallSource(k).source = nameSongkick
        /\ Len(calls[k].result) = 3
        /\ ResolvedTime(k, AcceptedContainers(k)[2]) = nameVenue
        /\ calls[k].result[2].venue = nameSongkick
        /\ calls[k].result[2].time = <<>>
        /\ calls[k].result[3].venue = nameVenue

-----------------------------------------------------------------------------
(* C23 *)

\* The items of the hydration data of the call's document
HydrationItems(k) ==
    UNION { UNION { { tag.paths[p][n] : n \in 1..Len(tag.paths[p]) } : p \in 1..Len(tag.paths) } :
              tag \in {CallDoc(k).jsonScripts[t] : t \in 1..Len(CallDoc(k).jsonScripts)} }

\* The item has none of venue.name, location.name and place.name
NamesNoVenue(item) ==
    /\ item.kind # "null"
    /\ item.venueName = <<>>
    /\ item.locationName = <<>>
    /\ item.placeName = <<>>

\* The records of a Bandsintown call made of a hydration item
RecordsOfItem(k, item) ==
    { i \in 1..Len(calls[k].result) :
        /\ item.kind # "null"
        /\ Len(JsonTitle("hydration", item)) > 0
        /\ calls[k].result[i].title = JsonTitle("hydration", item) }

BandsintownCall(k) ==
    /\ CallSource(k).source = nameBandsintown
    /\ CallSource(k).extraction_type = "json"

\* C23 as stated: the record of a Bandsintown hydration-data event that has
\* none of venue.name, location.name and place.name has the empty string as
\* venue.
C23_NamelessVenueIsEmpty ==
    \A k \in 1..Len(calls) :
        BandsintownCall(k) =>
            \A item \in HydrationItems(k) : \A i \in RecordsOfItem(k, item) :
                NamesNoVenue(item) => calls[k].result[i].venue = <<>>

\* C23 amended: the record of a Bandsintown hydration-data event that has
\* none of venue.name, location.name and place.name has the source name as
\* venue.
C23_NamelessVenueIsSourceName ==
    \A k \in 1..Len(calls) :
        BandsintownCall(k) =>
            \A item \in HydrationItems(k) : \A i \in RecordsOfItem(k, item) :
                NamesNoVenue(item) => calls[k].result[i].venue = CallSource(k).source

\* A call that returned two hydration records: one of an event with
\* place.name only, whose venue is that name, and one of an event with no
\* venue name, whose venue is 'Bandsintown'
C23_Witness ==
    \E k \in 1..Len(calls) :
        /\ BandsintownCall(k)
        /\ Len(calls[k].result) = 2
        /\ ItemAtPlace \in HydrationItems(k)
        /\ calls[k].result[1].title = ItemAtPlace.title
        /\ calls[k].result[1].venue = nameVenue
        /\ ItemHC \in HydrationItems(k)
        /\ calls[k].result[2].title = ItemHC.title
        /\ calls[k].result[2].venue = nameBandsintown

-----------------------------------------------------------------------------
(* C24 *)

\* The positions, among the first 30 containers of the call's document, of
\* the containers whose processing raises an exception
ThrownAt(k) ==
    { j \in 1..Len(FirstContainers(k)) :
        ContainerThrows(CallSource(k)) \/ FirstContainers(k)[j].throws }

\* The containers among the first 30 that raise no exception, in order
ContainersAt(k, positions) ==
    [n \in 1..Len(positions) |-> FirstContainers(k)[positions[n]]]

Untouched(k) ==
    ContainersAt(k, SelectSeq([j \in 1..Len(FirstContainers(k)) |-> j],
                              LAMBDA j : j \notin ThrownAt(k)))

\* C24: in HTML extraction an exception raised while one container is
\* processed skips exactly that container: it adds no record, the containers
\* before it keep their records, and the containers after it, up to the cap
\* of 30, are processed in order; the call returns what it would return for
\* the document without the containers that raise.
C24_ExceptionSkipsOneContainer ==
    \A k \in 1..Len(calls) :
        (CallSource(k).extraction_type = "standard"
            /\ ~NoContainerSelector(CallSource(k))
            /\ ~Malformed(CallSource(k).container_selector))
        => /\ Returned(k)
           /\ \A i \in 1..Len(calls[k].result) : \A j \in ThrownAt(k) :
                 calls[k].result[i].title # HtmlTitle(FirstContainers(k)[j], CallSource(k))
           /\ LET kept == SelectSeq(Untouched(k),
                                    LAMBDA c : Len(HtmlTitle(c, CallSource(k))) \in 1..100)
              IN  /\ Len(calls[k].result) = Len(kept)
                  /\ \A i \in 1..Len(kept) :
                        /\ calls[k].result[i].title = HtmlTitle(kept[i], CallSource(k))
                        /\ calls[k].result[i].date = HtmlDate(kept[i], CallSource(k))
                        /\ calls[k].result[i].source_url = CallUrl(k)

\* A call over 31 containers of which the second raises: 29 records, of
\* containers 1 and 3 to 30
C24_Witness ==
    \E k \in 1..Len(calls) :
        /\ CallSource(k).extraction_type = "standard"
        /\ ~ContainerThrows(CallSource(k))
        /\ Len(CallDoc(k).containers) = MaxContainers + 1
        /\ ThrownAt(k) = {2}
        /\ Len(calls[k].result) = MaxContainers - 1
        /\ calls[k].result[1].title = TitleOf(1)
        /\ \A i \in 2..(MaxContainers - 1) : calls[k].result[i].title = TitleOf(i + 1)

-----------------------------------------------------------------------------
(* C25 *)

CleanupRan ==
    pc \in {"cleanupExited", "cleanupEnded"}

\* C25: a missing prerequisite aborts a stage before it does any work.  The
\* process step run without the html_dumps directory exits with failure
\* before any source is extracted and before any events file or report is
\* written; the cleanup step run without OPENROUTER_API_KEY or without
\* today's events file exits with failure before any request is sent and
\* before any file is written.
C25_MissingPrerequisiteAborts ==
    /\ (~htmlDumps.dir /\ pc # "start")
          => /\ pc \in {"exited", "cleanupExited"}
             /\ fetches = <<>>
             /\ calls = <<>>
             /\ written = {}
             /\ allEventsFile = <<>> /\ eventsFile = <<>> /\ reportEvents = <<>>
    /\ (CleanupRan /\ (~apiKey \/ "events_today.json" \notin written))
          => /\ pc = "cleanupExited"
             /\ llmResponse = NoResponse
             /\ ~cleanedFile.exists
             /\ ~cleanedReport.exists
             /\ ProcessOutputsKept

\* A cleanup run that exited for want of the API key although the process
\* step had written today's events file with records in it
C25_Witness ==
    /\ pc = "cleanupExited"
    /\ ~apiKey
    /\ htmlDumps.dir
    /\ "events_today.json" \in written
    /\ Len(eventsFile) > 0
    /\ llmResponse = NoResponse

-----------------------------------------------------------------------------
(* C26 *)

\* The rows the loop of the fetch run has gone through
Attempted ==
    SubSeq(sourcesToProcess, 1, fetchCursor - 1)

\* The rows among them whose HTML file the run has written
FileWritten(i) ==
    /\ getHtmlFilePath(sourcesToProcess[i]) \in DOMAIN htmlDumps.files
    /\ htmlDumps.files[getHtmlFilePath(sourcesToProcess[i])] = PageOf(fetchRuns + 1)

\* C26: a fetch run appends exactly one result entry for every source it
\* processes, in registry order, with an explicit success flag: success is
\* true exactly when the source's HTML file was written in this run, and a
\* failed source has success false and an error message; every later source
\* is still attempted.
C26_OneResultPerSource ==
    pc = "fetching" =>
        /\ Len(results) = Len(Attempted)
        /\ \A i \in 1..Len(results) :
              /\ results[i].source = Attempted[i].source
              /\ results[i].url = Attempted[i].url
              /\ results[i].success \in BOOLEAN
              /\ results[i].success <=> FileWritten(i)
              /\ ~results[i].success => results[i].error

\* A run over two rows in which page.close threw for the first after its
\* file was written: three entries, two of them for the first row
C26_TwoEntriesForOneSource ==
    /\ pc = "fetching"
    /\ Len(sourcesToProcess) = 2
    /\ fetchCursor = 3
    /\ Len(results) = 3
    /\ results[1].source = results[2].source
    /\ results[1].success /\ ~results[2].success
    /\ FileWritten(1)
    /\ results[3].source = sourcesToProcess[2].source

-----------------------------------------------------------------------------
(* C29 *)

\* C29: during a fetch run at most one browser page is open at any moment:
\* the page opened for a source is closed before the page of the next source
\* is opened, also when navigation or saving for that source fails.
C29_AtMostOnePageOpen ==
    /\ pages.peak <= 1
    /\ pc = "fetching" => pages.open = 0

\* A run over two rows whose first navigation threw: its page was still open
\* when the page of the second row was opened and closed
C29_PageLeftOpen ==
    /\ pc = "fetching"
    /\ Len(results) = 2
    /\ ~results[1].success
    /\ results[2].success
    /\ Len(trail) >= 2
    /\ trail[1].op = "goto" /\ trail[2].op = "goto"
    /\ pages.peak = 2
    /\ pages.open = 1

-----------------------------------------------------------------------------
(* C27 *)

\* The items of the JSON-LD blocks of the call's document that parse
LdItems(k) ==
    UNION { { tag.items[n] : n \in 1..Len(tag.items) } :
              tag \in { CallDoc(k).ldJson[t] :
                          t \in {u \in 1..Len(CallDoc(k).ldJson) : CallDoc(k).ldJson[u].parses} } }

\* A named item of a JSON-LD block whose @type is not 'Event'
OtherTypeItems(k) ==
    { item \in LdItems(k) : item.kind # "null" /\ item.type # "Event" /\ Len(item.name) > 0 }

\* C27: every record a JSON-LD strategy produces is made of an item whose
\* @type is 'Event'; an item of another type in the same array or block as
\* an Event (an Organization with a name) never becomes an event record.
C27_OnlyEventItemsBecomeRecords ==
    \A k \in 1..Len(calls) :
        CallSource(k).extraction_type = "json" =>
            \A i \in 1..Len(calls[k].result) : \A item \in OtherTypeItems(k) :
                calls[k].result[i].title # item.name

\* A call on a document whose JSON-LD block is an array of an Event and an
\* Organization: it returned a record of each
C27_OrganizationBecomesRecord ==
    \E k \in 1..Len(calls) :
        /\ CallSource(k).extraction_type = "json"
        /\ CallSource(k).source = nameVenue
        /\ CallDoc(k).ldJson = <<LdTag("array", <<ItemLB, ItemOrg>>)>>
        /\ Len(calls[k].result) = 2
        /\ calls[k].result[1].title = ItemLB.name
        /\ calls[k].result[2].title = ItemOrg.name
        /\ calls[k].result[2].venue = nameVenue

-----------------------------------------------------------------------------
(* C28 *)

\* C28: for every LLM response the cleanup step writes either all three of
\* its outputs (events_<date>_cleaned.json, events_<date>_cleaned.md,
\* tonights_events.md) or none of them: the cleaned JSON is never written
\* while the cleaned report and tonights_events.md are not.
C28_CleanupWritesAllOrNothing ==
    pc = "cleanupEnded" =>
        /\ cleanedFile.exists <=> cleanedReport.exists
        /\ cleanedReport.exists => reportEvents = cleanedReport.events
        /\ ~cleanedFile.exists => ProcessOutputsKept

\* A cleanup run that received a fenced JSON object: the cleaned JSON file
\* is written, the cleaned report is not, and tonights_events.md holds what
\* the process step wrote
C28_CleanedJsonWithoutReport ==
    /\ pc = "cleanupEnded"
    /\ llmResponse.status = "message"
    /\ llmResponse.content.fence = "json"
    /\ llmResponse.content.inner.kind = "object"
    /\ Len(eventsFile) > 0
    /\ cleanedFile.exists
    /\ ~cleanedReport.exists
    /\ ProcessOutputsKept

-----------------------------------------------------------------------------
(* C30 *)

\* The records of a are records of b in the order they have in b
RECURSIVE IsSubsequence(_, _)
IsSubsequence(a, b) ==
    IF Len(a) = 0 THEN TRUE
    ELSE IF Len(b) = 0 THEN FALSE
    ELSE IF Head(a) = Head(b) THEN IsSubsequence(Tail(a), Tail(b))
    ELSE IsSubsequence(a, Tail(b))

\* The records of a list that belong to the bucket of the given record
OfBucket(list, event) ==
    SelectSeq(list, LAMBDA e : RegionKey(e) = RegionKey(event) /\ VenueKey(e) = VenueKey(event))

\* events_<date>.json is a selection of all_events.json that holds every
\* record with is_today = true
DatedFileSelectsToday ==
    /\ IsSubsequence(eventsFile, allEventsFile)
    /\ \A i \in 1..Len(allEventsFile) :
          allEventsFile[i].is_today => Holds(eventsFile, allEventsFile[i])

\* C30 as stated: with two date passes, the records of the today report are
\* a subsequence of the records of events_<date>.json, which are a
\* subsequence of all_events.json (same relative order, nothing added or
\* modified), and every record with is_today = true is in
\* events_<date>.json.
C30_ReportIsSubsequenceOfDatedFile ==
    GroupingEnded =>
        /\ IsSubsequence(reportEvents, eventsFile)
        /\ DatedFileSelectsToday

\* C30 amended: the records of the today report are records of
\* events_<date>.json, none added or modified and none more often than in
\* the file, those of one region and venue in the order they have in the
\* file; the records of events_<date>.json are a subsequence of
\* all_events.json; and every record with is_today = true is in
\* events_<date>.json.
C30_ReportSelectsFromDatedFile ==
    GroupingEnded =>
        /\ \A i \in 1..Len(reportEvents) :
              IsSubsequence(OfBucket(reportEvents, reportEvents[i]),
                            OfBucket(eventsFile, reportEvents[i]))
        /\ DatedFileSelectsToday

\* A finished run whose report holds fewer records than events_<date>.json,
\* which holds fewer than all_events.json, and lists the records of one
\* venue together although another venue's record lies between them in the
\* file
C30_Witness ==
    /\ pc = "done"
    /\ 0 < Len(reportEvents)
    /\ Len(reportEvents) < Len(eventsFile)
    /\ Len(eventsFile) < Len(allEventsFile)
    /\ \A i \in 1..Len(reportEvents) : Holds(eventsFile, reportEvents[i])
    /\ ~IsSubsequence(reportEvents, eventsFile)

=============================================================================
